---- MODULE Spec2Model ----
(***************************************************************************)
(* Agent coordination and constitutional-validation core of tryad-agents.  *)
(*                                                                         *)
(* Texts are sequences of fragments (tokens).  A fragment is either a word *)
(* the keyword rules look for, a neutral word, or one of the fixed         *)
(* template texts of the source, whose keyword content is tabulated in     *)
(* TemplateOcc.  Numbers on the 0-1 scale are kept exactly: load and risk   *)
(* tolerance in tenths, capability reliability in hundredths, aggregate    *)
(* validation confidence in thousandths, alternative scores in             *)
(* ten-thousandths, and estimates, balances and Result confidences as      *)
(* rationals (Frac), so that all arithmetic is exact integer arithmetic.   *)
(***************************************************************************)
EXTENDS Integers, Sequences, FiniteSets, TLC

VARIABLES
  agentState,    \* BaseAgent.state of every agent: active, currentLoad, capabilities, activeTasks
  config,        \* VortexCore.config
  auditLog,      \* VortexCore.auditLog
  now,           \* the wall clock read by new Date()
  nextAuditSeq,  \* source of fresh audit ids
  calls,         \* executeTask invocations, in the order they were started
  lastRead,      \* the last call of a client into the core or the policy manager, and what it returned
  orch,          \* the orchestration run inside OrchestratorAgent.doExecuteTask
  registered,    \* OrchestratorAgent.availableAgents, in registration order
  coordinationHistory, \* ResilienceManager.coordinationHistory
  decisionCtx,   \* the CoordinationContexts makeCoordinationDecision was called with, in order
  outcomeHistory, \* ResilienceManager.outcomeHistory
  execution,     \* the executeCoordinationDecision call of the resilient-coordination tool
  probe          \* inputs and outputs of the evaluation of a pure function

vars == <<agentState, config, auditLog, now, nextAuditSeq, calls, lastRead,
          orch, registered, coordinationHistory, decisionCtx, outcomeHistory,
          execution, probe>>

----------------------------------------------------------------------------
(* Bounds of the model *)

MaxCalls == 2         \* direct executeTask calls issued by the environment
MaxAudits == 3        \* direct postExecutionValidation calls issued by the environment
MaxDecisions == 1     \* makeCoordinationDecision calls issued by the environment
MaxClock == 1         \* the last value of the wall clock
MaxEvaluations == 2   \* evaluateOutcome calls issued by the environment

----------------------------------------------------------------------------
(* Generic helpers *)

Min(a, b) == IF a < b THEN a ELSE b

Max(a, b) == IF a > b THEN a ELSE b

Range(s) == {s[i] : i \in DOMAIN s}

\* the sum of a sequence of integers (Array.prototype.reduce with +)
RECURSIVE SeqSum(_)
SeqSum(s) == IF s = <<>> THEN 0 ELSE Head(s) + SeqSum(Tail(s))

\* the concatenation of a sequence of sequences
RECURSIVE Flatten(_)
Flatten(ss) == IF ss = <<>> THEN <<>> ELSE Head(ss) \o Flatten(Tail(ss))

IsPrefix(s, t) == Len(s) <= Len(t) /\ SubSeq(t, 1, Len(s)) = s

RECURSIVE GCD(_, _)
GCD(a, b) == IF b = 0 THEN a ELSE GCD(b, a % b)

\* the rational n / d (d > 0) in lowest terms; JavaScript numbers are modelled exactly
Frac(n, d) == LET g == GCD(n, d) IN [num |-> n \div g, den |-> d \div g]

FracGT(x, y) == x.num * y.den > y.num * x.den

\* the sum of two rationals
FracAdd(a, b) == Frac(a.num * b.den + b.num * a.den, a.den * b.den)

FracMul(a, b) == Frac(a.num * b.num, a.den * b.den)

FracMin(a, b) == IF FracGT(a, b) THEN b ELSE a

FracMax(a, b) == IF FracGT(a, b) THEN a ELSE b

RECURSIVE FracSum(_)
FracSum(fs) == IF fs = <<>> THEN Frac(0, 1) ELSE FracAdd(Head(fs), FracSum(Tail(fs)))

\* the mean of a non-empty sequence of rationals
FracMean(fs) == FracMul(FracSum(fs), Frac(1, Len(fs)))

----------------------------------------------------------------------------
(* Texts and keyword matching (String.includes / String.match on the       *)
(* lower-cased text)                                                       *)

\* fixed template texts of the source, each one fragment
CorrectionNF  == "PRINCIPLE CORRECTION - Non-Fabrication"
CorrectionEAC == "PRINCIPLE CORRECTION - Error as Compass"
CorrectionCO  == "PRINCIPLE CORRECTION - Creative Orientation"
CorrectionGR  == "PRINCIPLE CORRECTION - Generative Resilience"
BoldText      == "EXPLORATORY ENHANCEMENT"
ConservativeText == "CONSERVATIVE ENHANCEMENT"
FailedPrefix  == "Task execution failed: "
AllFailedText == "All subtasks failed to complete successfully"
OrchestratedHeader == "# Orchestrated Result for: "
MultipleAgentsHeader == "## Synthesized Analysis from Multiple Agents\n\n"
SynthesisHeader == "### Orchestrator Synthesis\n"
ConvergenceText ==
  "the collective intelligence suggests convergence around the core findings. "
PerspectivesText ==
  "This orchestrated approach provides multiple perspectives while maintaining constitutional compliance across all agent interactions."
NotePrefix == "\n\n### Note: "
FailedNoteTail == " subtask(s) failed to complete"
ExploreNovelPrefix == "Explore novel approaches to: "
FindAlternativePrefix == "Find alternative perspectives on: "
ExploreCreativePrefix == "Explore creative possibilities related to: "
YearToken     == "2024"
Para          == "\n\n"

\* the keywords that occur inside each template fragment, with their number of
\* occurrences
TemplateOcc ==
  (CorrectionEAC :> ("fix" :> 1 @@ "eliminate" :> 1 @@ "learn" :> 2 @@ "discover" :> 1))
  @@ (CorrectionCO :> ("fix" :> 1 @@ "creative" :> 2))
  @@ (CorrectionGR :> ("prevent" :> 1 @@ "block" :> 1 @@ "protect" :> 1
                        @@ "enhance" :> 3 @@ "strengthen" :> 1))
  @@ (BoldText :> ("innovative" :> 1 @@ "creative" :> 1 @@ "novel" :> 1
                    @@ "unconventional" :> 1 @@ "experimental" :> 1
                    @@ "synthesis" :> 1 @@ "enhance" :> 2))
  @@ (ConservativeText :> ("established" :> 1 @@ "proven" :> 1 @@ "predictable" :> 1
                            @@ "enhance" :> 2))
  @@ (SynthesisHeader :> ("synthesis" :> 1))
  @@ (FailedPrefix :> ("failed" :> 1))
  @@ (AllFailedText :> ("failed" :> 1))
  @@ (FailedNoteTail :> ("failed" :> 1))
  @@ (ConvergenceText :> ("find" :> 1))
  @@ (FindAlternativePrefix :> ("find" :> 1))
  @@ (ExploreNovelPrefix :> ("explore" :> 1 @@ "novel" :> 1))
  @@ (ExploreCreativePrefix :> ("explore" :> 1 @@ "creative" :> 1))
  @@ ("_vision_clarification" :> ("vision" :> 1))
  @@ (" high-confidence analysis(es), " :> (", " :> 1))
  @@ (YearToken :> ("\\d{4}" :> 1))
  @@ ("problematic" :> ("problem" :> 1))

\* number of occurrences of keyword kw in fragment tok
OccIn(table, tok, kw) ==
  IF tok = kw THEN 1
  ELSE IF tok \in DOMAIN table
       THEN (IF kw \in DOMAIN table[tok] THEN table[tok][kw] ELSE 0)
       ELSE 0

Occ(tok, kw) == OccIn(TemplateOcc, tok, kw)

\* number of matches of kw in the text (String.match with the g flag)
MatchCount(text, kw) == SeqSum([i \in DOMAIN text |-> Occ(text[i], kw)])

\* String.includes
Includes(text, kw) == \E i \in DOMAIN text : Occ(text[i], kw) > 0

\* the matches of a list of keywords, summed
CountAll(text, kws) == SeqSum([k \in DOMAIN kws |-> MatchCount(text, kws[k])])

----------------------------------------------------------------------------
(* The four principles and validateAgainstCore (principles.ts)             *)

uncertaintyKeywords == <<"uncertain", "not sure", "maybe", "might", "could be", "unclear">>
fabricationIndicators == <<"definitely", "certainly", "absolutely", "always", "never", "\\d{4}">>
errorKeywords == <<"error", "failed", "wrong", "mistake", "problem", "issue">>
eliminationLanguage == <<"fix", "remove", "delete", "eliminate", "stop">>
learningLanguage == <<"learn", "understand", "explore", "discover", "navigate">>
problemKeywords == <<"problem", "issue", "challenge", "difficulty", "trouble",
                    "fix", "solve", "resolve", "address">>
creativeKeywords == <<"create", "build", "design", "develop", "generate", "imagine",
                     "vision", "possibility", "potential", "opportunity">>
defensiveLanguage == <<"prevent", "avoid", "block", "stop", "protect">>
generativeLanguage == <<"enhance", "strengthen", "develop", "expand", "grow">>

\* a text is truthy in `if (output)` iff it is a non-empty string
Truthy(text) == text # <<>>

NonFabrication(input, output) ==
  LET hasUncertainty == \E kw \in Range(uncertaintyKeywords) : Includes(input, kw)
      hasFabrication == \E kw \in Range(fabricationIndicators) : Includes(output, kw)
  IN IF Truthy(output) /\ hasUncertainty /\ hasFabrication
     THEN [compliant |-> FALSE, confidence |-> 8, correction |-> CorrectionNF]
     ELSE [compliant |-> TRUE, confidence |-> 9, correction |-> ""]

ErrorAsCompass(input, output) ==
  LET hasErrorContext == \E kw \in Range(errorKeywords) : Includes(input, kw)
      hasElimination == \E kw \in Range(eliminationLanguage) : Includes(output, kw)
      hasLearning == \E kw \in Range(learningLanguage) : Includes(output, kw)
  IN IF hasErrorContext /\ Truthy(output) /\ hasElimination /\ ~hasLearning
     THEN [compliant |-> FALSE, confidence |-> 7, correction |-> CorrectionEAC]
     ELSE [compliant |-> TRUE, confidence |-> 8, correction |-> ""]

CreativeOrientation(input, output) ==
  LET problemCount == CountAll(input, problemKeywords)
      creativeCount == CountAll(input, creativeKeywords)
  IN IF problemCount > 2 /\ creativeCount = 0
     THEN [compliant |-> FALSE, confidence |-> 8, correction |-> CorrectionCO]
     ELSE [compliant |-> TRUE, confidence |-> 9, correction |-> ""]

GenerativeResilience(input, output) ==
  LET defensiveCount == CountAll(output, defensiveLanguage)
      generativeCount == CountAll(output, generativeLanguage)
  IN IF Truthy(output) /\ defensiveCount > 2 /\ generativeCount = 0
     THEN [compliant |-> FALSE, confidence |-> 7, correction |-> CorrectionGR]
     ELSE [compliant |-> TRUE, confidence |-> 8, correction |-> ""]

\* the principle names, in the order of the VORTEX_CORE array
VORTEX_CORE == <<"non-fabrication", "error-as-compass", "creative-orientation",
                 "generative-resilience">>

PrincipleValidate(name, input, output) ==
  CASE name = "non-fabrication" -> NonFabrication(input, output)
    [] name = "error-as-compass" -> ErrorAsCompass(input, output)
    [] name = "creative-orientation" -> CreativeOrientation(input, output)
    [] name = "generative-resilience" -> GenerativeResilience(input, output)

\* validateAgainstCore; output <<>> stands for both a missing and an empty output.
\* confidence is the mean of the four confidences, in thousandths.
CoreValidation(results) ==
  LET violated == SelectSeq(results, LAMBDA r : ~r.compliant)
  IN [overallCompliant |-> \A i \in DOMAIN results : results[i].compliant,
      principleResults |-> [i \in DOMAIN results |->
                               [name |-> VORTEX_CORE[i],
                                compliant |-> results[i].compliant,
                                confidence |-> results[i].confidence]],
      corrections |-> [i \in DOMAIN violated |-> violated[i].correction],
      confidence |-> SeqSum([i \in DOMAIN results |-> results[i].confidence]) * 25]

validateAgainstCore(input, output) ==
  CoreValidation([i \in DOMAIN VORTEX_CORE |->
                    PrincipleValidate(VORTEX_CORE[i], input, output)])

\* the original response, followed by the correction of every violated principle
GuidedResponse(originalResponse, validation) ==
  IF validation.overallCompliant THEN originalResponse
  ELSE originalResponse \o
       Flatten([i \in DOMAIN validation.corrections |->
                  <<Para, validation.corrections[i]>>])

generatePrincipleGuidedResponse(originalResponse, input) ==
  GuidedResponse(originalResponse, validateAgainstCore(input, originalResponse))

----------------------------------------------------------------------------
(* VortexCore: self-correction and the audit log (VortexCore.ts)           *)

noveltyKeywords == <<"innovative", "creative", "novel", "unconventional", "experimental",
                    "breakthrough", "revolutionary", "paradigm", "synthesis", "emergent">>
reliabilityKeywords == <<"established", "proven", "tested", "validated", "standard",
                        "documented", "reliable", "consistent", "predictable", "stable">>

\* the configuration getVortexCore() constructs, and the one the constructor defaults to
DefaultConfig ==
  [enableActivePause |-> TRUE, generateAlternatives |-> TRUE, alternativeCount |-> 3,
   evaluationCriteria |-> {"novelty", "reliability", "ethical_alignment"}]

\* configurations initializeVortexCore(config) can install
Configs ==
  {DefaultConfig,
   [DefaultConfig EXCEPT !.generateAlternatives = FALSE],
   [DefaultConfig EXCEPT !.enableActivePause = FALSE],
   [DefaultConfig EXCEPT !.alternativeCount = 1]}

\* evaluateNovelty / evaluateReliability, in tenths
evaluateNovelty(output) ==
  Min(Cardinality({kw \in Range(noveltyKeywords) : Includes(output, kw)}), 10)

evaluateReliability(output) ==
  Min(Cardinality({kw \in Range(reliabilityKeywords) : Includes(output, kw)}), 10)

generateBoldApproach(originalOutput) == originalOutput \o <<Para, BoldText>>

generateConservativeApproach(originalOutput) == originalOutput \o <<Para, ConservativeText>>

generateAlternativeApproaches(cfg, input, originalOutput) ==
  << [approach |-> "principle_guided",
      output |-> generatePrincipleGuidedResponse(originalOutput, input)],
     [approach |-> "bold_exploration",
      output |-> generateBoldApproach(originalOutput)],
     [approach |-> "conservative_reliable",
      output |-> generateConservativeApproach(originalOutput)] >>

\* the score of one alternative, in ten-thousandths
AlternativeScore(cfg, input, output) ==
  (IF "novelty" \in cfg.evaluationCriteria THEN evaluateNovelty(output) * 300 ELSE 0)
  + (IF "reliability" \in cfg.evaluationCriteria THEN evaluateReliability(output) * 400 ELSE 0)
  + (IF "ethical_alignment" \in cfg.evaluationCriteria
       THEN validateAgainstCore(input, output).confidence * 3 ELSE 0)

evaluateAlternatives(cfg, alternatives, input) ==
  [i \in DOMAIN alternatives |->
     [approach |-> alternatives[i].approach,
      output |-> alternatives[i].output,
      score |-> AlternativeScore(cfg, input, alternatives[i].output)]]

\* a reduce in which a later alternative of equal score replaces the best one
RECURSIVE ReduceBestAtLeast(_, _)
ReduceBestAtLeast(best, rest) ==
  IF rest = <<>> THEN best
  ELSE ReduceBestAtLeast(IF Head(rest).score >= best.score THEN Head(rest) ELSE best,
                         Tail(rest))

\* Array.reduce without an initial value: the first element is the first `best`
RECURSIVE ReduceBest(_, _)
ReduceBest(best, rest) ==
  IF rest = <<>> THEN best
  ELSE ReduceBest(IF Head(rest).score > best.score THEN Head(rest) ELSE best, Tail(rest))

selectBestAlternative(evaluatedAlternatives) ==
  ReduceBest(Head(evaluatedAlternatives), Tail(evaluatedAlternatives))

activePauseCorrection(cfg, input, originalOutput) ==
  IF ~cfg.generateAlternatives
  THEN generatePrincipleGuidedResponse(originalOutput, input)
  ELSE selectBestAlternative(
         evaluateAlternatives(cfg,
           generateAlternativeApproaches(cfg, input, originalOutput), input)).output

\* number of alternatives one postExecutionValidation call generates and scores
AlternativesScored(cfg, input, rawOutput) ==
  IF ~validateAgainstCore(input, rawOutput).overallCompliant
       /\ cfg.enableActivePause /\ cfg.generateAlternatives
  THEN Len(evaluateAlternatives(cfg, generateAlternativeApproaches(cfg, input, rawOutput),
                                input))
  ELSE 0

\* preExecutionValidation: approved iff the input alone is compliant
preExecutionValidation(input) ==
  [approved |-> validateAgainstCore(input, <<>>).overallCompliant]

\* postExecutionValidation: the final output and the audit record it appends
\* the audit record postExecutionValidation pushes onto the log
AuditRecord(toolName, input, rawOutput, auditId, timestamp, validation, corrected, finalOutput) ==
  [id |-> auditId,
   timestamp |-> timestamp,
   toolName |-> toolName,
   input |-> input,
   output |-> rawOutput,
   validation |-> [overallCompliant |-> validation.overallCompliant,
                   principleResults |-> validation.principleResults],
   correctionApplied |-> corrected,
   finalOutput |-> finalOutput]

Validated(toolName, input, rawOutput, auditId, timestamp, validation, corrected, finalOutput) ==
  [finalOutput |-> finalOutput,
   audit |-> AuditRecord(toolName, input, rawOutput, auditId, timestamp, validation,
                         corrected, finalOutput)]

\* the part of postExecutionValidation that follows validateAgainstCore
ApplyValidation(cfg, toolName, input, rawOutput, auditId, timestamp, validation) ==
  Validated(toolName, input, rawOutput, auditId, timestamp, validation,
            ~validation.overallCompliant /\ cfg.enableActivePause,
            IF ~validation.overallCompliant /\ cfg.enableActivePause
            THEN activePauseCorrection(cfg, input, rawOutput)
            ELSE rawOutput)

postExecutionValidation(cfg, toolName, input, rawOutput, auditId, timestamp) ==
  ApplyValidation(cfg, toolName, input, rawOutput, auditId, timestamp,
                  validateAgainstCore(input, rawOutput))

\* Array.prototype.sort with (a, b) => b.timestamp - a.timestamp: a stable sort,
\* newest first (insertion into an already sorted prefix)
RECURSIVE InsertByTimestampDesc(_, _)
InsertByTimestampDesc(sorted, rec) ==
  IF sorted = <<>> THEN <<rec>>
  ELSE IF Head(sorted).timestamp >= rec.timestamp
       THEN <<Head(sorted)>> \o InsertByTimestampDesc(Tail(sorted), rec)
       ELSE <<rec>> \o sorted

RECURSIVE SortByTimestampDesc(_)
SortByTimestampDesc(log) ==
  IF log = <<>> THEN <<>>
  ELSE InsertByTimestampDesc(SortByTimestampDesc(SubSeq(log, 1, Len(log) - 1)),
                             log[Len(log)])

\* getComplianceStats: per principle, total and compliant counts
ComplianceStats(log) ==
  [i \in DOMAIN VORTEX_CORE |->
     [name |-> VORTEX_CORE[i],
      total |-> Len(log),
      compliant |-> Cardinality({k \in DOMAIN log :
                       log[k].validation.principleResults[i].compliant})]]

----------------------------------------------------------------------------
(* Capabilities, tasks and results (BaseAgent.ts)                          *)

\* costEstimate on the 1-10 scale, reliabilityScore in hundredths
Cap(name, cost, rel) == [name |-> name, costEstimate |-> cost, reliabilityScore |-> rel]

\* an absent parentTaskId
NoParent == <<>>

Task(id, description, priority, required, context, parent) ==
  [id |-> id, description |-> description, priority |-> priority,
   requiredCapabilities |-> required, context |-> context, parentTaskId |-> parent]

NoTask == Task(<<>>, <<>>, 0, <<>>, {}, NoParent)

Result(taskId, agentId, success, output, confidence, resources) ==
  [taskId |-> taskId, agentId |-> agentId, success |-> success, output |-> output,
   confidence |-> confidence, resourcesUsed |-> resources]

NoResult == Result(<<>>, "", FALSE, <<>>, Frac(0, 1), <<>>)

\* the state a BaseAgent is constructed with
NewAgentState(capabilities) ==
  [active |-> TRUE, currentLoad |-> 0, availableCapabilities |-> capabilities,
   activeTasks |-> <<>>]

\* load is kept in tenths: the 0.2 step, the 0.9 saturation threshold, the 1.0 ceiling
LoadStep == 2
LoadThreshold == 9
LoadCeiling == 10

canHandle(st, task) ==
  LET hasCapabilities ==
        \A i \in DOMAIN task.requiredCapabilities :
          \E j \in DOMAIN st.availableCapabilities :
            st.availableCapabilities[j].name = task.requiredCapabilities[i]
      hasCapacity == st.currentLoad < LoadThreshold
  IN hasCapabilities /\ hasCapacity /\ st.active

\* estimateTask: cost and reliability as exact rationals; infinite marks cost = Infinity
estimateTask(st, task) ==
  LET requiredCaps == SelectSeq(st.availableCapabilities,
                                LAMBDA cap : cap.name \in Range(task.requiredCapabilities))
      n == Len(requiredCaps)
      sumCost == SeqSum([i \in DOMAIN requiredCaps |-> requiredCaps[i].costEstimate])
      sumRel == SeqSum([i \in DOMAIN requiredCaps |-> requiredCaps[i].reliabilityScore])
  IN IF n = 0
     THEN [infinite |-> TRUE, cost |-> Frac(0, 1), reliability |-> Frac(0, 1)]
     ELSE [infinite |-> FALSE,
           \* avgCost * (1 + load)
           cost |-> Frac(sumCost * (10 + st.currentLoad), n * 10),
           \* avgReliability * (1 - load * 0.3)
           reliability |-> Frac(sumRel * (100 - 3 * st.currentLoad), n * 100 * 100)]

\* reliability / Math.max(cost, 1); with cost = Infinity the quotient is 0
Score(estimate) ==
  IF estimate.infinite THEN Frac(0, 1)
  ELSE LET maxCost == IF estimate.cost.num > estimate.cost.den
                      THEN estimate.cost ELSE Frac(1, 1)
       IN Frac(estimate.reliability.num * maxCost.den,
               estimate.reliability.den * maxCost.num)

\* the first lines of executeTask: register the task and raise the load
BeginTask(st, task) ==
  [st EXCEPT !.activeTasks = Append(@, task.id),
             !.currentLoad = Min(@ + LoadStep, LoadCeiling)]

\* the finally block of executeTask
EndTask(st, task) ==
  [st EXCEPT !.activeTasks = SelectSeq(@, LAMBDA id : id # task.id),
             !.currentLoad = Max(@ - LoadStep, 0)]

\* a catch block that keeps the executor's nominal confidence and drops the message
CatchResultGeneric(agentId, task, message) ==
  Result(task.id, agentId, FALSE, <<FailedPrefix>>, Frac(5, 10), <<>>)

\* the Result the catch block of executeTask returns
CatchResult(agentId, task, message) ==
  Result(task.id, agentId, FALSE, <<FailedPrefix, message>>, Frac(0, 1), <<>>)

\* the Result of the successful path: { ...rawResult, output: finalOutput }
FinalResult(rawResult, finalOutput) == [rawResult EXCEPT !.output = finalOutput]

----------------------------------------------------------------------------
(* The agents of the lattice (AgentFactory, the agents' constructors)      *)

Orchestrator == "orchestrator-001"
Analysis == "analysis-001"
Creative == "creative-001"
Discovery == "discovery-001"
\* an executor of the caller's own, registered through registerAgent
Custom == "custom-001"

Workers == {Analysis, Creative, Discovery, Custom}

AllAgents == Workers \cup {Orchestrator}

AgentName(id) ==
  CASE id = Orchestrator -> "OrchestratorAgent"
    [] id = Analysis -> "AnalysisAgent"
    [] id = Creative -> "CreativeAgent"
    [] id = Discovery -> "DiscoveryAgent"
    [] id = Custom -> "CustomAgent"

OrchestratorCaps ==
  << Cap("task_decomposition", 3, 90), Cap("agent_coordination", 4, 85),
     Cap("result_synthesis", 5, 80), Cap("conflict_resolution", 6, 75) >>

AnalysisCaps ==
  << Cap("file_analysis", 6, 90), Cap("gemini_analysis", 7, 85),
     Cap("code_understanding", 5, 80), Cap("pattern_recognition", 6, 75),
     Cap("sandbox_execution", 8, 70) >>

CreativeCaps ==
  << Cap("creative_process", 5, 90), Cap("vision_clarification", 4, 85),
     Cap("structural_tension", 3, 80), Cap("ideation", 6, 75),
     Cap("momentum_building", 4, 80) >>

DiscoveryCaps ==
  << Cap("novelty_search", 7, 70), Cap("lateral_thinking", 6, 75),
     Cap("analogical_reasoning", 5, 80), Cap("boundary_exploration", 8, 65),
     Cap("synthesis_discovery", 6, 70), Cap("constraint_liberation", 7, 60) >>

CustomCaps ==
  << Cap("analysis", 5, 80), Cap("gemini_analysis", 4, 90) >>

\* the agents as constructed
FactoryAgents ==
  [a \in AllAgents |->
     NewAgentState(CASE a = Orchestrator -> OrchestratorCaps
                     [] a = Analysis -> AnalysisCaps
                     [] a = Creative -> CreativeCaps
                     [] a = Discovery -> DiscoveryCaps
                     [] a = Custom -> CustomCaps)]

----------------------------------------------------------------------------
(* The executor's own operation, doExecuteTask of a worker agent: external. *)
(* It returns a Result for the task it was given, or throws a message.      *)

DefensiveOutput == <<"prevent", "avoid", "block">>

ExecutorBehaviours ==
  { [success |-> TRUE, output |-> <<"ok">>, confidence |-> Frac(9, 10)],
    [success |-> TRUE, output |-> DefensiveOutput, confidence |-> Frac(7, 10)],
    [success |-> FALSE, output |-> <<"unavailable">>, confidence |-> Frac(2, 10)] }

ExecutorResults(agentId, task) ==
  { Result(task.id, agentId, b.success, b.output, b.confidence, <<AgentName(agentId)>>) :
      b \in ExecutorBehaviours }

ErrorMessages == {"gemini timeout"}

----------------------------------------------------------------------------
(* executeTask invocations (BaseAgent.executeTask).  A frame moves          *)
(*   pre -> running -> post -> done   (the executor returned)               *)
(*   pre -> running -> done           (the executor threw)                  *)
(* at the awaits of the method.  outcome tells how the call ended for its   *)
(* caller; dispatches, postPasses and auditsAppended count what the call    *)
(* did.                                                                     *)

NewFrame(agent, task, caller) ==
  [agent |-> agent, task |-> task, caller |-> caller, pc |-> "pre",
   approved |-> preExecutionValidation(task.description).approved,
   raw |-> NoResult, finalOutput |-> <<>>, result |-> NoResult,
   threw |-> FALSE, error |-> "", outcome |-> "pending",
   dispatches |-> 0, postPasses |-> 0, auditsAppended |-> 0]

\* the synchronous head of executeTask, up to the await of the pre-validation
StartOne(S, agent, task, caller) ==
  [calls |-> Append(S.calls, NewFrame(agent, task, caller)),
   agents |-> [S.agents EXCEPT ![agent] = BeginTask(@, task)]]

\* a dispatch that a non-compliant verdict prevents: the call ends with a failed Result
DispatchedIfApproved(frame) ==
  IF frame.approved
  THEN [frame EXCEPT !.pc = "running", !.dispatches = @ + 1]
  ELSE [frame EXCEPT !.pc = "done", !.outcome = "returned",
                     !.result = CatchResult(frame.agent, frame.task, "unavailable")]

\* after pre-validation: doExecuteTask is called whatever the verdict
Dispatched(frame) == [frame EXCEPT !.pc = "running", !.dispatches = @ + 1]

\* doExecuteTask returned rawResult: post-validate it and append the audit record
PostValidated(frame, rawResult, post) ==
  [frame EXCEPT !.pc = "post", !.raw = rawResult, !.finalOutput = post.finalOutput,
                !.postPasses = @ + 1, !.auditsAppended = @ + 1]

\* the return statement of the try block, then the finally block
Returned(frame) ==
  [frame EXCEPT !.pc = "done", !.outcome = "returned",
                !.result = FinalResult(frame.raw, frame.finalOutput)]

\* doExecuteTask threw: the catch block returns a failed Result, then finally runs
Caught(frame, message) ==
  [frame EXCEPT !.pc = "done", !.outcome = "returned", !.threw = TRUE,
                !.error = message,
                !.result = CatchResult(frame.agent, frame.task, message)]

\* new Date(): the clock has not moved since it was last read, or it has
Ticks == {now} \cup (IF now < MaxClock THEN {now + 1} ELSE {})

UnchangedOrch == UNCHANGED <<orch, registered>>

UnchangedPolicy ==
  UNCHANGED <<coordinationHistory, decisionCtx, outcomeHistory, execution>>

Dispatch(c) ==
  /\ calls[c].pc = "pre"
  /\ calls' = [calls EXCEPT ![c] = Dispatched(@)]
  /\ UNCHANGED <<agentState, config, auditLog, now, nextAuditSeq, lastRead, probe>>
  /\ UnchangedOrch /\ UnchangedPolicy

\* the post-validation of a raw result at clock value ts
PostValidate(c, rawResult, ts) ==
  LET frame == calls[c]
      post == postExecutionValidation(config, AgentName(frame.agent),
                                      frame.task.description, rawResult.output,
                                      nextAuditSeq, ts)
  IN /\ calls' = [calls EXCEPT ![c] = PostValidated(@, rawResult, post)]
     /\ auditLog' = Append(auditLog, post.audit)
     /\ nextAuditSeq' = nextAuditSeq + 1
     /\ now' = ts

ExecutorReturns(c) ==
  /\ calls[c].pc = "running"
  /\ calls[c].agent \in Workers
  /\ \E rawResult \in ExecutorResults(calls[c].agent, calls[c].task) :
       \E ts \in Ticks : PostValidate(c, rawResult, ts)
  /\ UNCHANGED <<agentState, config, lastRead, probe>>
  /\ UnchangedOrch /\ UnchangedPolicy

ExecutorThrows(c) ==
  /\ calls[c].pc = "running"
  /\ calls[c].agent \in Workers
  /\ \E message \in ErrorMessages :
       calls' = [calls EXCEPT ![c] = Caught(@, message)]
  /\ agentState' = [agentState EXCEPT ![calls[c].agent] = EndTask(@, calls[c].task)]
  /\ UNCHANGED <<config, auditLog, now, nextAuditSeq, lastRead, probe>>
  /\ UnchangedOrch /\ UnchangedPolicy

Finish(c) ==
  /\ calls[c].pc = "post"
  /\ calls' = [calls EXCEPT ![c] = Returned(@)]
  /\ agentState' = [agentState EXCEPT ![calls[c].agent] = EndTask(@, calls[c].task)]
  /\ UNCHANGED <<config, auditLog, now, nextAuditSeq, lastRead, probe>>
  /\ UnchangedOrch /\ UnchangedPolicy

----------------------------------------------------------------------------
(* Introspection (VortexCore.getAuditHistory, getComplianceStats)          *)

NoRead == [op |-> "none", returned |-> 0]

\* limit = 0 stands for a call without a limit (and for limit 0, which is falsy too)
getAuditHistory(limit) ==
  LET sorted == SortByTimestampDesc(auditLog)
  IN /\ auditLog' = sorted       \* Array.prototype.sort sorts the log itself
     /\ lastRead' = [op |-> "getAuditHistory",
                     returned |-> Len(IF limit # 0
                                      THEN SubSeq(sorted, 1, Min(limit, Len(sorted)))
                                      ELSE sorted)]

GetAuditHistory ==
  /\ \E limit \in 0 .. 1 : getAuditHistory(limit)
  /\ UNCHANGED <<agentState, config, now, nextAuditSeq, calls, probe>>
  /\ UnchangedOrch /\ UnchangedPolicy

GetComplianceStats ==
  /\ lastRead' = [op |-> "getComplianceStats",
                  returned |-> Len(ComplianceStats(auditLog))]
  /\ UNCHANGED <<agentState, config, auditLog, now, nextAuditSeq, calls, probe>>
  /\ UnchangedOrch /\ UnchangedPolicy

----------------------------------------------------------------------------
(* Specification Spec: callers invoke executeTask on worker agents          *)
(* directly (as executeDirectAssignment does), concurrently, under the      *)
(* configuration getVortexCore() constructs.                                *)

DirectTasks ==
  { Task(<<"t1">>, <<"hello">>, 5, <<"file_analysis">>, {}, NoParent),
    Task(<<"t2">>, <<"fix", "problem", "issue">>, 7, <<>>, {}, NoParent) }

DirectAgents == {Analysis}

\* no orchestration run: the fields of a run are the task doExecuteTask was given
\* (its executeTask call is calls[call]), the strategies whose error decomposeTask
\* caught, the strategy that produced the subtasks, the subtasks, the assignments,
\* the executeAgentTasks chains and the results handed to synthesizeResults
NoOrch ==
  [pc |-> "idle", call |-> 0, task |-> NoTask, failed |-> <<>>, strategy |-> "none",
   subtasks |-> <<>>, assignments |-> <<>>, chains |-> <<>>, results |-> <<>>]

NoProbe == [pc |-> "idle"]

\* no executeCoordinationDecision call: the fields of a call are the Decision it
\* was given (coordinationHistory[decision]), the (agentId, task) pairs not yet
\* reached by its loops, the executeTask call it is awaiting (calls[call]) and its
\* results array
NoExecution ==
  [pc |-> "idle", decision |-> 0, queue |-> <<>>, call |-> 0, results |-> <<>>]

InitIdle ==
  /\ agentState = FactoryAgents
  /\ auditLog = <<>>
  /\ now = 0
  /\ nextAuditSeq = 1
  /\ calls = <<>>
  /\ lastRead = NoRead
  /\ coordinationHistory = <<>>
  /\ decisionCtx = <<>>
  /\ outcomeHistory = <<>>
  /\ execution = NoExecution

Init ==
  /\ InitIdle
  /\ config = DefaultConfig
  /\ orch = NoOrch
  /\ registered = <<>>
  /\ probe = NoProbe

EnvExecute ==
  /\ Len(calls) < MaxCalls
  /\ \E agent \in DirectAgents, task \in DirectTasks :
       LET S == StartOne([calls |-> calls, agents |-> agentState], agent, task, "env")
       IN calls' = S.calls /\ agentState' = S.agents
  /\ UNCHANGED <<config, auditLog, now, nextAuditSeq, lastRead, probe>>
  /\ UnchangedOrch /\ UnchangedPolicy

Next ==
  \/ EnvExecute
  \/ \E c \in DOMAIN calls : Dispatch(c)
  \/ \E c \in DOMAIN calls : ExecutorReturns(c)
  \/ \E c \in DOMAIN calls : ExecutorThrows(c)
  \/ \E c \in DOMAIN calls : Finish(c)

Spec == Init /\ [][Next]_vars

----------------------------------------------------------------------------
(* Specification SpecAudit: callers use the VortexCore directly (as the     *)
(* tools do): post-execution validations and introspection calls, under any *)
(* configuration.                                                           *)

AuditInputs == { <<"hello">> }

AuditOutputs == { <<"ok">>, DefensiveOutput }

InitAudit ==
  /\ InitIdle
  /\ config \in Configs
  /\ orch = NoOrch
  /\ registered = <<>>
  /\ probe = NoProbe

PostExecution ==
  /\ Len(auditLog) < MaxAudits
  /\ \E input \in AuditInputs, output \in AuditOutputs, ts \in Ticks :
       LET post == postExecutionValidation(config, "tryad-collaboration", input, output,
                                           nextAuditSeq, ts)
       IN /\ auditLog' = Append(auditLog, post.audit)
          /\ nextAuditSeq' = nextAuditSeq + 1
          /\ now' = ts
          /\ lastRead' = [op |-> "postExecutionValidation",
                          returned |-> Len(post.finalOutput),
                          corrected |-> post.audit.correctionApplied,
                          scored |-> AlternativesScored(config, input, output)]
  /\ UNCHANGED <<agentState, config, calls, probe>>
  /\ UnchangedOrch /\ UnchangedPolicy

NextAudit ==
  \/ PostExecution
  \/ GetAuditHistory
  \/ GetComplianceStats

SpecAudit == InitAudit /\ [][NextAudit]_vars

\* C20: when post-execution validation is non-compliant and self-correction is
\* enabled, the number of alternative renderings generated and scored is at most
\* the configured alternativeCount, for every configured count of at least 1.
AlternativesWithinConfiguredCount ==
  (lastRead.op = "postExecutionValidation" /\ lastRead.corrected
     /\ config.alternativeCount >= 1)
    => lastRead.scored <= config.alternativeCount

----------------------------------------------------------------------------
(* Claims about the Execution Wrapper and the audit log                    *)

\* C2: every Result executeTask has returned went through exactly one
\* post-execution validation pass, which appended exactly one audit record,
\* whether the executor returned or threw.
EveryResultValidatedOnce ==
  \A c \in DOMAIN calls :
    calls[c].pc = "done" =>
      calls[c].postPasses = 1 /\ calls[c].auditsAppended = 1

\* C4: the audit log is append-only: every step, the read operations
\* getAuditHistory and getComplianceStats included, leaves the records already
\* in the log where they were.
AuditLogAppendOnly == [][IsPrefix(auditLog, auditLog')]_vars

\* C5: when the executor's operation throws, executeTask returns (it does not
\* throw) a Result with the task's id, success = false, confidence = 0 and an
\* output that contains the error message.
ThrowBecomesFailedResult ==
  \A c \in DOMAIN calls :
    (calls[c].pc = "done" /\ calls[c].threw) =>
      /\ calls[c].outcome = "returned"
      /\ calls[c].result.taskId = calls[c].task.id
      /\ calls[c].result.success = FALSE
      /\ calls[c].result.confidence = Frac(0, 1)
      /\ calls[c].error \in Range(calls[c].result.output)

\* an executeTask call whose executor threw has ended
ThrowWitness ==
  \E c \in DOMAIN calls : calls[c].pc = "done" /\ calls[c].threw /\ calls[c].error # ""

----------------------------------------------------------------------------
(* Specification SpecProbe: canHandle and estimateTask as pure functions of *)
(* an executor's state and a task, for executors with any of a few          *)
(* capability lists, any load the 0.2 steps can produce, active or shut     *)
(* down, and tasks with any of a few requirement lists.                     *)

ProbeCapLists ==
  { <<>>,
    << Cap("a", 1, 90) >>,
    << Cap("a", 5, 0) >>,
    << Cap("a", 3, 80), Cap("b", 10, 100) >> }

ProbeRequirements == { <<>>, <<"a">>, <<"a", "b">>, <<"c">> }

ProbeLoads == {0, 2, 4, 6, 8, 10}

InitProbe ==
  /\ InitIdle
  /\ config = DefaultConfig
  /\ orch = NoOrch
  /\ registered = <<>>
  /\ \E caps \in ProbeCapLists, load \in ProbeLoads, active \in BOOLEAN,
        required \in ProbeRequirements :
       probe = [pc |-> "input",
                st |-> [NewAgentState(caps) EXCEPT !.currentLoad = load,
                                                   !.active = active],
                task |-> Task(<<"p">>, <<"probe">>, 5, required, {}, NoParent),
                canHandle |-> FALSE,
                estimate |-> estimateTask(NewAgentState(<<>>), NoTask)]

Evaluate ==
  /\ probe.pc = "input"
  /\ probe' = [probe EXCEPT !.pc = "evaluated",
                            !.canHandle = canHandle(probe.st, probe.task),
                            !.estimate = estimateTask(probe.st, probe.task)]
  /\ UNCHANGED <<agentState, config, auditLog, now, nextAuditSeq, calls, lastRead>>
  /\ UnchangedOrch /\ UnchangedPolicy

NextProbe == Evaluate

SpecProbe == InitProbe /\ [][NextProbe]_vars

\* C1: whenever canHandle(T) is true, estimateTask(T) returns a reliability
\* greater than 0 and a finite cost.
CanHandleImpliesUsableEstimate ==
  (probe.pc = "evaluated" /\ probe.canHandle) =>
     (probe.estimate.reliability.num > 0 /\ ~probe.estimate.infinite)

----------------------------------------------------------------------------
(* Specification SpecValidate: validateAgainstCore as a pure function of an *)
(* exchange (input, output), for the exchange of testConstitutionalGovernance *)
(* and for exchanges made of a few words the principles look for.           *)

\* "How do I fix this problem with my broken code?", lower-cased
ProblemFramedInput ==
  <<"how do i ", "fix", " this ", "problem", " with my broken code?">>

\* "You should definitely delete all the problematic parts and this will
\* certainly solve everything.", lower-cased
DefinitiveDeletionOutput ==
  <<"you should ", "definitely", " ", "delete", " all the ", "problematic",
    " parts and this will ", "certainly", " ", "solve", " everything.">>

ValidateInputs ==
  {ProblemFramedInput}
  \cup { <<w1, w2, w3>> : w1 \in {"fix", "maybe"}, w2 \in {"problem", "create"},
                          w3 \in {"issue", "hello"} }

ValidateOutputs ==
  { DefinitiveDeletionOutput, <<>>, <<"ok">>, <<"definitely">>,
    <<"delete", "and", "learn">>, DefensiveOutput }

InitValidate ==
  /\ InitIdle
  /\ config = DefaultConfig
  /\ orch = NoOrch
  /\ registered = <<>>
  /\ \E input \in ValidateInputs, output \in ValidateOutputs :
       probe = [pc |-> "input", input |-> input, output |-> output,
                validation |-> validateAgainstCore(<<>>, <<>>)]

ValidateExchange ==
  /\ probe.pc = "input"
  /\ probe' = [probe EXCEPT !.pc = "validated",
                            !.validation = validateAgainstCore(probe.input, probe.output)]
  /\ UNCHANGED <<agentState, config, auditLog, now, nextAuditSeq, calls, lastRead>>
  /\ UnchangedOrch /\ UnchangedPolicy

NextValidate == ValidateExchange

SpecValidate == InitValidate /\ [][NextValidate]_vars

\* the names of the principles a verdict reports as non-compliant
Violations(validation) ==
  { validation.principleResults[i].name :
      i \in {k \in DOMAIN validation.principleResults :
               ~validation.principleResults[k].compliant} }

\* C19: for the input that asks how to fix a problem and the output that makes
\* definitive claims and recommends deletion, the verdict of validateAgainstCore
\* reports creative-orientation or non-fabrication as non-compliant and
\* contains at least one correction.
ProblemFramedExchangeDetected ==
  (probe.pc = "validated" /\ probe.input = ProblemFramedInput
     /\ probe.output = DefinitiveDeletionOutput)
    => /\ Violations(probe.validation)
            \cap {"creative-orientation", "non-fabrication"} # {}
       /\ Len(probe.validation.corrections) >= 1

----------------------------------------------------------------------------
(* The Policy Manager (ResilienceManager.ts).  Balance values are exact     *)
(* rationals; riskTolerance is in tenths, timeConstraints in minutes.       *)

\* a JavaScript Map: entries [key, value] in insertion order
MapHas(m, key) == \E i \in DOMAIN m : m[i].key = key

MapGet(m, key) == m[CHOOSE i \in DOMAIN m : m[i].key = key].value

MapSet(m, key, value) ==
  IF MapHas(m, key)
  THEN [i \in DOMAIN m |-> IF m[i].key = key THEN [key |-> key, value |-> value] ELSE m[i]]
  ELSE Append(m, [key |-> key, value |-> value])

\* timeConstraints left undefined
NoTime == 0

CoordinationContext(goal, agents, complexity, time, risk, novelty) ==
  [primaryGoal |-> goal, availableAgents |-> agents, taskComplexity |-> complexity,
   timeConstraints |-> time, riskTolerance |-> risk, noveltyRequired |-> novelty]

\* `value / total` skipped: the running sum is returned as it stands
normalizeSkipped(value, total) == Frac(value, 10)

\* "Normalize to ensure they sum to 1": a running sum (in tenths) over the total
normalize(value, total) == Frac(value, total)

calculateExplorationBalance(context) ==
  LET highComplexity == context.taskComplexity > 7
      lowComplexity == context.taskComplexity < 4
      timePressed == context.timeConstraints # NoTime /\ context.timeConstraints < 30
      highRisk == context.riskTolerance > 7
      lowRisk == context.riskTolerance < 3
      \* the running sums, in tenths, before normalisation
      exploitationSum ==
        5 + (IF highComplexity THEN -2 ELSE IF lowComplexity THEN 2 ELSE 0)
          + (IF timePressed THEN 3 ELSE 0)
          + (IF highRisk THEN 0 ELSE IF lowRisk THEN 2 ELSE 0)
          + (IF context.noveltyRequired THEN -3 ELSE 0)
      explorationSum ==
        5 + (IF highComplexity THEN 2 ELSE IF lowComplexity THEN -2 ELSE 0)
          + (IF timePressed THEN -3 ELSE 0)
          + (IF highRisk THEN 2 ELSE IF lowRisk THEN -2 ELSE 0)
          + (IF context.noveltyRequired THEN 3 ELSE 0)
      total == exploitationSum + explorationSum
      exploitation == normalize(exploitationSum, total)
      exploration == normalize(explorationSum, total)
      difference == IF exploitationSum >= explorationSum
                    THEN exploitationSum - explorationSum
                    ELSE explorationSum - exploitationSum
      tension == Frac(2 * difference, total)
      normalizedTension == IF FracGT(tension, Frac(1, 1)) THEN Frac(1, 1) ELSE tension
      opening == IF FracGT(exploitation, Frac(6, 10)) THEN "Favors exploitation due to "
                 ELSE IF FracGT(exploration, Frac(6, 10)) THEN "Favors exploration due to "
                 ELSE "Balanced for "
      factors == (IF highComplexity THEN <<"high complexity">> ELSE <<>>)
                 \o (IF timePressed THEN <<"time constraints">> ELSE <<>>)
                 \o (IF highRisk THEN <<"high risk tolerance">> ELSE <<>>)
                 \o (IF context.noveltyRequired THEN <<"novelty requirement">> ELSE <<>>)
  IN [exploitation |-> exploitation, exploration |-> exploration,
      tension |-> normalizedTension,
      rationale |-> <<opening>> \o (IF factors # <<>> THEN factors
                                    ELSE <<"balanced context">>)]

\* the thresholds tested with >= instead of >
selectResilienceStrategyAtLeast(context, balance) ==
  IF ~FracGT(Frac(7, 10), balance.exploitation) THEN "goal_directed"
  ELSE IF ~FracGT(Frac(7, 10), balance.exploration) THEN "exploratory"
  ELSE IF ~FracGT(Frac(7, 10), balance.tension) THEN "adaptive"
  ELSE "balanced"

\* the tension test placed before the two side tests
selectResilienceStrategyTensionFirst(context, balance) ==
  IF FracGT(balance.tension, Frac(7, 10)) THEN "adaptive"
  ELSE IF FracGT(balance.exploitation, Frac(7, 10)) THEN "goal_directed"
  ELSE IF FracGT(balance.exploration, Frac(7, 10)) THEN "exploratory"
  ELSE "balanced"

selectResilienceStrategy(context, balance) ==
  IF FracGT(balance.exploitation, Frac(7, 10)) THEN "goal_directed"
  ELSE IF FracGT(balance.exploration, Frac(7, 10)) THEN "exploratory"
  ELSE IF FracGT(balance.tension, Frac(7, 10)) THEN "adaptive"
  ELSE "balanced"

inferCapabilitiesFromGoal(goal) ==
  LET capabilities ==
        (IF Includes(goal, "analyze") \/ Includes(goal, "understand")
         THEN <<"analysis", "pattern_recognition">> ELSE <<>>)
        \o (IF Includes(goal, "create") \/ Includes(goal, "design")
               \/ Includes(goal, "develop")
            THEN <<"creative_process", "ideation">> ELSE <<>>)
        \o (IF Includes(goal, "explore") \/ Includes(goal, "discover")
               \/ Includes(goal, "find")
            THEN <<"novelty_search", "exploration">> ELSE <<>>)
        \o (IF Includes(goal, "code") \/ Includes(goal, "program")
               \/ Includes(goal, "software")
            THEN <<"code_understanding", "technical_analysis">> ELSE <<>>)
  IN IF Len(capabilities) > 0 THEN capabilities ELSE <<"analysis", "creative_process">>

\* no agent found (null)
NoAgent == ""

\* a loop in which a later agent with an equal score replaces the best one
RECURSIVE FindBestAtLeast(_, _, _, _, _)
FindBestAtLeast(states, agents, task, bestAgent, bestScore) ==
  IF agents = <<>> THEN bestAgent
  ELSE LET agent == Head(agents)
           score == Score(estimateTask(states[agent], task))
       IN IF canHandle(states[agent], task) /\ ~FracGT(bestScore, score)
          THEN FindBestAtLeast(states, Tail(agents), task, agent, score)
          ELSE FindBestAtLeast(states, Tail(agents), task, bestAgent, bestScore)

\* the loop of findMostSuitableAgent: a strictly higher score replaces the best agent

RECURSIVE FindBest(_, _, _, _, _)
FindBest(states, agents, task, bestAgent, bestScore) ==
  IF agents = <<>> THEN bestAgent
  ELSE LET agent == Head(agents)
           score == Score(estimateTask(states[agent], task))
       IN IF canHandle(states[agent], task) /\ FracGT(score, bestScore)
          THEN FindBest(states, Tail(agents), task, agent, score)
          ELSE FindBest(states, Tail(agents), task, bestAgent, bestScore)

\* the loop of findMostSuitableAgent, started with bestScore = -1
findMostSuitableAgent(states, agents, task) ==
  FindBest(states, agents, task, NoAgent, Frac(-1, 1))

\* `prefix_${Date.now()}`
StampedId(prefix, ts) == <<prefix, ToString(ts)>>

generateGoalDirectedAssignments(states, context, ts) ==
  LET primaryTask ==
        Task(StampedId("goal_", ts), context.primaryGoal, 10,
             inferCapabilitiesFromGoal(context.primaryGoal),
             { <<"strategy", "goal_directed">>, <<"primaryGoal", context.primaryGoal>>,
               <<"focusMode", "efficiency">> },
             NoParent)
      suitableAgent == findMostSuitableAgent(states, context.availableAgents, primaryTask)
  IN IF suitableAgent # NoAgent THEN MapSet(<<>>, suitableAgent, <<primaryTask>>) ELSE <<>>

RECURSIVE Distribute(_, _, _, _)
Distribute(states, agents, tasks, assignments) ==
  IF tasks = <<>> THEN assignments
  ELSE LET task == Head(tasks)
           agent == findMostSuitableAgent(states, agents, task)
       IN IF agent # NoAgent
          THEN Distribute(states, agents, Tail(tasks),
                          MapSet(assignments, agent,
                                 IF MapHas(assignments, agent)
                                 THEN Append(MapGet(assignments, agent), task)
                                 ELSE <<task>>))
          ELSE Distribute(states, agents, Tail(tasks), assignments)

generateExploratoryAssignments(states, context, ts) ==
  LET exploratoryTasks ==
        << Task(StampedId("explore_novelty_", ts),
                <<ExploreNovelPrefix>> \o context.primaryGoal, 8,
                <<"novelty_search", "lateral_thinking">>,
                { <<"strategy", "exploratory">>, <<"explorationFocus", "novelty">>,
                  <<"primaryGoal", context.primaryGoal>> },
                NoParent),
           Task(StampedId("explore_alternatives_", ts),
                <<FindAlternativePrefix>> \o context.primaryGoal, 7,
                <<"boundary_exploration", "analogical_reasoning">>,
                { <<"strategy", "exploratory">>, <<"explorationFocus", "alternatives">>,
                  <<"primaryGoal", context.primaryGoal>> },
                NoParent) >>
  IN Distribute(states, context.availableAgents, exploratoryTasks, <<>>)

generateBalancedAssignments(states, context, balance, ts) ==
  LET goalTask ==
        Task(StampedId("balanced_goal_", ts), context.primaryGoal, 8,
             inferCapabilitiesFromGoal(context.primaryGoal),
             { <<"strategy", "balanced">>, <<"exploitationWeight", balance.exploitation>>,
               <<"primaryGoal", context.primaryGoal>> },
             NoParent)
      explorationTask ==
        Task(StampedId("balanced_explore_", ts),
             <<ExploreCreativePrefix>> \o context.primaryGoal, 6,
             <<"novelty_search", "creative_process">>,
             { <<"strategy", "balanced">>, <<"explorationWeight", balance.exploration>>,
               <<"primaryGoal", context.primaryGoal>> },
             NoParent)
      goalAgent == findMostSuitableAgent(states, context.availableAgents, goalTask)
      exploreAgent == findMostSuitableAgent(states, context.availableAgents, explorationTask)
      withGoal == IF goalAgent # NoAgent THEN MapSet(<<>>, goalAgent, <<goalTask>>) ELSE <<>>
  IN IF exploreAgent # NoAgent /\ exploreAgent # goalAgent
     THEN MapSet(withGoal, exploreAgent, <<explorationTask>>)
     ELSE withGoal

\* Array.prototype.find: the first agent named `name`, or NoAgent
FindByName(agents, name) ==
  LET hits == SelectSeq(agents, LAMBDA a : AgentName(a) = name)
  IN IF hits = <<>> THEN NoAgent ELSE Head(hits)

generateAdaptiveAssignments(states, context, balance, ts) ==
  LET adaptiveTask ==
        Task(StampedId("adaptive_", ts),
             <<"Adaptively pursue: ">> \o context.primaryGoal, 9,
             <<"creative_process", "analysis", "novelty_search">>,
             { <<"strategy", "adaptive">>, <<"tension", balance.tension>>,
               <<"exploitationWeight", balance.exploitation>>,
               <<"explorationWeight", balance.exploration>>,
               <<"primaryGoal", context.primaryGoal>>, <<"adaptiveMode", TRUE>> },
             NoParent)
      orchestrator == FindByName(context.availableAgents, "OrchestratorAgent")
      fallbackAgent == findMostSuitableAgent(states, context.availableAgents, adaptiveTask)
  IN IF orchestrator # NoAgent THEN MapSet(<<>>, orchestrator, <<adaptiveTask>>)
     ELSE IF fallbackAgent # NoAgent THEN MapSet(<<>>, fallbackAgent, <<adaptiveTask>>)
     ELSE <<>>

generateAgentAssignments(states, context, strategy, balance, ts) ==
  CASE strategy = "goal_directed" -> generateGoalDirectedAssignments(states, context, ts)
    [] strategy = "exploratory" -> generateExploratoryAssignments(states, context, ts)
    [] strategy = "balanced" -> generateBalancedAssignments(states, context, balance, ts)
    [] strategy = "adaptive" -> generateAdaptiveAssignments(states, context, balance, ts)

predictOutcomes(strategy) ==
  CASE strategy = "goal_directed" ->
         << "Efficient achievement of primary goal", "Reliable, tested approaches",
            "Minimal risk of unexpected results" >>
    [] strategy = "exploratory" ->
         << "Novel insights and creative solutions",
            "Discovery of unexpected opportunities",
            "Higher risk but potentially breakthrough results" >>
    [] strategy = "balanced" ->
         << "Good balance of reliability and creativity",
            "Moderate innovation with controlled risk",
            "Multiple pathways to goal achievement" >>
    [] strategy = "adaptive" ->
         << "Dynamic optimization based on emerging information",
            "Ability to pivot between approaches as needed",
            "Resilient adaptation to unexpected challenges" >>

createContingencyPlans(strategy) ==
  << "If primary agent fails, reassign to backup agent with similar capabilities",
     "If time constraints become critical, shift to goal-directed strategy",
     "If unexpected opportunities emerge, deploy discovery agent" >>
  \o (CASE strategy = "goal_directed" ->
             << "If efficient path is blocked, temporarily increase exploration",
                "If outcome lacks innovation, inject creative agent input" >>
        [] strategy = "exploratory" ->
             << "If exploration yields no viable options, fallback to proven approaches",
                "If risk becomes too high, implement safety constraints" >>
        [] strategy = "balanced" ->
             << "If balance becomes ineffective, shift to pure exploitation or exploration",
                "Monitor tension levels and adjust weights dynamically" >>
        [] strategy = "adaptive" ->
             << "If adaptation cycles become chaotic, implement stability controls",
                "If tension becomes destructive, reduce exploration weight" >>)

\* the Decision makeCoordinationDecision builds, given the agents' states and the clock
makeCoordinationDecision(states, context, ts) ==
  LET explorationBalance == calculateExplorationBalance(context)
      strategy == selectResilienceStrategy(context, explorationBalance)
  IN [strategy |-> strategy,
      agentAssignments |-> generateAgentAssignments(states, context, strategy,
                                                    explorationBalance, ts),
      explorationBalance |-> explorationBalance,
      expectedOutcomes |-> predictOutcomes(strategy),
      contingencyPlans |-> createContingencyPlans(strategy)]

----------------------------------------------------------------------------
(* Specification SpecDecide: callers ask the Policy Manager for Decisions   *)
(* (as the resilient-coordination and system-integration tools do), with    *)
(* the lattice AgentFactory built.                                          *)

Goals ==
  { <<"analyze", "code">>, <<"create", "plan">>, <<"ship", "it">> }

\* AgentFactory.getAllAgents() after initializeAgentLattice, and a caller's own selection
AgentLists ==
  { <<Orchestrator, Analysis, Creative, Discovery>>, <<Analysis, Creative, Discovery>> }

Complexities == {2, 5, 9}

TimeConstraints == {NoTime, 20, 60}

RiskTolerances == {1, 5, 9}

InitDecide ==
  /\ InitIdle
  /\ config = DefaultConfig
  /\ orch = NoOrch
  /\ registered = <<Analysis, Creative, Discovery>>
  /\ probe = NoProbe

MakeDecision ==
  /\ Len(coordinationHistory) < MaxDecisions
  /\ \E goal \in Goals, agents \in AgentLists, complexity \in Complexities,
        time \in TimeConstraints, risk \in RiskTolerances, novelty \in BOOLEAN :
       LET context == CoordinationContext(goal, agents, complexity, time, risk, novelty)
       IN /\ coordinationHistory' =
               Append(coordinationHistory, makeCoordinationDecision(agentState, context, now))
          /\ decisionCtx' = Append(decisionCtx, context)
  /\ UNCHANGED <<agentState, config, auditLog, now, nextAuditSeq, calls, lastRead,
                 orch, registered, outcomeHistory, execution, probe>>

NextDecide == MakeDecision

SpecDecide == InitDecide /\ [][NextDecide]_vars

\* C3: in every Decision, under each of the four strategies, every executor in
\* agentAssignments is one for which canHandle holds, at assignment time, for
\* each task assigned to it.
AssignmentsOnlyToCapableAgents ==
  \A d \in DOMAIN coordinationHistory :
    LET assignments == coordinationHistory[d].agentAssignments
    IN \A e \in DOMAIN assignments :
         \A t \in DOMAIN assignments[e].value :
           canHandle(agentState[assignments[e].key], assignments[e].value[t])

\* C11: for every Decision, whatever the context signals, balance.exploitation
\* plus balance.exploration equals 1.
BalanceSumsToOne ==
  \A d \in DOMAIN coordinationHistory :
    FracAdd(coordinationHistory[d].explorationBalance.exploitation,
            coordinationHistory[d].explorationBalance.exploration) = Frac(1, 1)

\* a Decision whose running sums did not add up to 1 before normalisation
\* (high risk tolerance raises exploration only)
BalanceSumsToOneWitness ==
  \E d \in DOMAIN coordinationHistory :
    /\ decisionCtx[d].riskTolerance > 7
    /\ BalanceSumsToOne

\* 0 <= x <= 1
OnUnitScale(x) == ~FracGT(Frac(0, 1), x) /\ ~FracGT(x, Frac(1, 1))

\* C12: for every Decision, whatever the context signals, balance.exploitation,
\* balance.exploration and balance.tension each lie on the 0-1 scale.
BalanceValuesOnUnitScale ==
  \A d \in DOMAIN coordinationHistory :
    /\ OnUnitScale(coordinationHistory[d].explorationBalance.exploitation)
    /\ OnUnitScale(coordinationHistory[d].explorationBalance.exploration)
    /\ OnUnitScale(coordinationHistory[d].explorationBalance.tension)

AllSignalsFavourExploitation(context) ==
  /\ context.taskComplexity < 4
  /\ context.riskTolerance < 3
  /\ ~context.noveltyRequired
  /\ context.timeConstraints = NoTime \/ context.timeConstraints < 30

\* every signal of the context favours exploration: complexity > 7, risk
\* tolerance > 0.7, novelty required, no time constraint
AllSignalsFavourExploration(context) ==
  /\ context.taskComplexity > 7
  /\ context.riskTolerance > 7
  /\ context.noveltyRequired
  /\ context.timeConstraints = NoTime

\* C14: a context whose signals all favour exploitation yields exploitation >= 0.6
\* and strategy goal_directed; a context whose signals all favour exploration
\* yields exploration >= 0.6 and strategy exploratory.
OneSidedContextGetsItsSide ==
  \A d \in DOMAIN coordinationHistory :
    /\ AllSignalsFavourExploitation(decisionCtx[d])
         => /\ ~FracGT(Frac(6, 10), coordinationHistory[d].explorationBalance.exploitation)
            /\ coordinationHistory[d].strategy = "goal_directed"
    /\ AllSignalsFavourExploration(decisionCtx[d])
         => /\ ~FracGT(Frac(6, 10), coordinationHistory[d].explorationBalance.exploration)
            /\ coordinationHistory[d].strategy = "exploratory"

\* a Decision for an exploitation-favouring context under time pressure
ExploitationSideWitness ==
  \E d \in DOMAIN coordinationHistory :
    /\ AllSignalsFavourExploitation(decisionCtx[d])
    /\ decisionCtx[d].timeConstraints # NoTime
    /\ coordinationHistory[d].strategy = "goal_directed"

\* a Decision for an exploration-favouring context
ExplorationSideWitness ==
  \E d \in DOMAIN coordinationHistory :
    /\ AllSignalsFavourExploration(decisionCtx[d])
    /\ coordinationHistory[d].strategy = "exploratory"

\* C15: in an exploratory Decision the exploration tasks are spread across
\* distinct executors: no executor is assigned more than one of them.
ExploratoryTasksOnDistinctExecutors ==
  \A d \in DOMAIN coordinationHistory :
    coordinationHistory[d].strategy = "exploratory"
      => \A e \in DOMAIN coordinationHistory[d].agentAssignments :
           Len(coordinationHistory[d].agentAssignments[e].value) <= 1

\* C16: every Decision made for a context with a non-empty list of available
\* agents contains at least one agent assignment, whatever the primary goal
\* text and whichever strategy is selected.
DecisionAssignsSomeAgent ==
  \A d \in DOMAIN coordinationHistory :
    Len(decisionCtx[d].availableAgents) > 0
      => Len(coordinationHistory[d].agentAssignments) > 0

----------------------------------------------------------------------------
(* The Policy Manager: outcome evaluation and statistics                    *)

\* String.split(' ').includes(word): in the texts evaluated here every word of a
\* goal is a fragment of its own, and no template fragment holds one as a word
HasWord(text, word) == \E i \in DOMAIN text : text[i] = word

\* number of keywords of the list that the text includes
IncludedCount(text, kws) == Cardinality({k \in DOMAIN kws : Includes(text, kws[k])})

calculateGoalAlignment(result, primaryGoal) ==
  IF ~result.success THEN Frac(1, 10)
  ELSE LET overlap == Cardinality({i \in DOMAIN primaryGoal :
                                      HasWord(result.output, primaryGoal[i])})
       IN FracMin(FracMul(Frac(overlap, Len(primaryGoal)), result.confidence),
                  Frac(1, 1))

outcomeNoveltyKeywords ==
  <<"novel", "innovative", "creative", "unique", "original", "breakthrough",
    "unconventional", "unexpected", "surprising", "revolutionary">>

calculateNoveltyScore(result) ==
  LET baseScore == FracMin(Frac(IncludedCount(result.output, outcomeNoveltyKeywords), 10),
                           Frac(8, 10))
  IN IF result.success THEN baseScore ELSE FracMul(baseScore, Frac(5, 10))

feasibilityKeywords ==
  <<"practical", "implementable", "achievable", "realistic", "doable",
    "step-by-step", "concrete", "actionable", "specific">>

calculateFeasibility(result) ==
  LET baseScore ==
        FracMin(Frac(15 * IncludedCount(result.output, feasibilityKeywords), 100),
                Frac(9, 10))
  IN IF result.success THEN FracMax(baseScore, Frac(5, 10))
     ELSE FracMul(baseScore, Frac(3, 10))

\* the weighted overall value of an evaluation
OverallValue(goalAlignment, noveltyScore, feasibility, constitutionalCompliance) ==
  FracSum(<< FracMul(goalAlignment, Frac(3, 10)), FracMul(noveltyScore, Frac(2, 10)),
             FracMul(feasibility, Frac(3, 10)),
             FracMul(constitutionalCompliance, Frac(2, 10)) >>)

OutcomeEvaluation(goalAlignment, noveltyScore, feasibility, constitutionalCompliance) ==
  [goalAlignment |-> goalAlignment, noveltyScore |-> noveltyScore,
   feasibility |-> feasibility, constitutionalCompliance |-> constitutionalCompliance,
   overallValue |-> OverallValue(goalAlignment, noveltyScore, feasibility,
                                 constitutionalCompliance)]

\* the OutcomeEvaluation evaluateOutcome builds; the validation it awaits first is
\* not read
evaluateOutcome(result, originalContext) ==
  OutcomeEvaluation(calculateGoalAlignment(result, originalContext.primaryGoal),
                    calculateNoveltyScore(result), calculateFeasibility(result),
                    result.confidence)

\* the strategies a Decision can carry
Strategies == {"goal_directed", "exploratory", "balanced", "adaptive"}

\* exploration of the last ten Decisions
RecentExploration(history) ==
  LET recent == SubSeq(history, Max(1, Len(history) - 9), Len(history))
  IN [i \in DOMAIN recent |-> recent[i].explorationBalance.exploration]

ExplorationTrend(values) ==
  IF Len(values) > 5
  THEN LET half == Len(values) \div 2
           firstAvg == FracMean(SubSeq(values, 1, half))
           secondAvg == FracMean(SubSeq(values, half + 1, Len(values)))
       IN IF FracGT(secondAvg, FracAdd(firstAvg, Frac(1, 10))) THEN "increasing"
          ELSE IF FracGT(firstAvg, FracAdd(secondAvg, Frac(1, 10))) THEN "decreasing"
          ELSE "stable"
  ELSE "stable"

getCoordinationStats(history, outcomes) ==
  LET outcomeValues == [i \in DOMAIN outcomes |-> outcomes[i].value.overallValue]
      explorationValues == RecentExploration(history)
  IN [totalDecisions |-> Len(history),
      strategyDistribution |->
        [st \in Strategies |-> Cardinality({d \in DOMAIN history : history[d].strategy = st})],
      averageOutcomeValue |->
        IF Len(outcomeValues) > 0 THEN FracMean(outcomeValues) ELSE Frac(0, 1),
      explorationTrends |->
        [avg |-> IF Len(explorationValues) > 0 THEN FracMean(explorationValues)
                 ELSE Frac(5, 10),
         trend |-> ExplorationTrend(explorationValues)]]

----------------------------------------------------------------------------
(* Specification SpecEvaluate: a client of the Policy Manager scores        *)
(* Results with evaluateOutcome and reads the statistics.                   *)

\* AgentResults handed to evaluateOutcome; the second and third have the same
\* output and differ in the executor's confidence
EvaluatedResults ==
  { Result(<<"t1">>, Analysis, TRUE, <<"practical", "plan">>, Frac(9, 10), <<>>),
    Result(<<"t1">>, Creative, TRUE, DefensiveOutput, Frac(7, 10), <<>>),
    Result(<<"t2">>, Creative, TRUE, DefensiveOutput, Frac(4, 10), <<>>),
    Result(<<"t2">>, Discovery, FALSE, <<"novel", "plan">>, Frac(2, 10), <<>>) }

EvaluationGoals == { <<"create", "plan">>, <<"ship", "it">> }

InitEvaluate ==
  /\ InitIdle
  /\ config = DefaultConfig
  /\ orch = NoOrch
  /\ registered = <<>>
  /\ probe = NoProbe

EvaluateOutcome ==
  /\ Len(auditLog) < MaxEvaluations
  /\ \E result \in EvaluatedResults, goal \in EvaluationGoals, ts \in Ticks :
       LET context == CoordinationContext(goal, <<Analysis, Creative, Discovery>>,
                                          5, NoTime, 5, FALSE)
           post == postExecutionValidation(config, "resilience_manager", goal,
                                           result.output, nextAuditSeq, ts)
           evaluation == evaluateOutcome(result, context)
       IN /\ auditLog' = Append(auditLog, post.audit)
          /\ nextAuditSeq' = nextAuditSeq + 1
          /\ now' = ts
          /\ outcomeHistory' = MapSet(outcomeHistory, result.taskId, evaluation)
          /\ lastRead' = [op |-> "evaluateOutcome", result |-> result,
                          context |-> context, returned |-> evaluation]
  /\ UNCHANGED <<agentState, config, calls, probe, coordinationHistory, decisionCtx,
                 execution>>
  /\ UnchangedOrch

GetCoordinationStats ==
  /\ lastRead' = [op |-> "getCoordinationStats",
                  returned |-> getCoordinationStats(coordinationHistory, outcomeHistory)]
  /\ UNCHANGED <<agentState, config, auditLog, now, nextAuditSeq, calls, probe>>
  /\ UnchangedOrch /\ UnchangedPolicy

NextEvaluate ==
  \/ EvaluateOutcome
  \/ GetCoordinationStats

SpecEvaluate == InitEvaluate /\ [][NextEvaluate]_vars

\* C17: evaluateOutcome sets the evaluation's constitutionalCompliance to the
\* aggregate confidence the Validation Engine gives the pair (primary goal,
\* Result output), so Results with the same output get the same
\* constitutionalCompliance whatever the executor's confidence.
ComplianceIsValidationConfidence ==
  lastRead.op = "evaluateOutcome"
    => lastRead.returned.constitutionalCompliance
         = Frac(validateAgainstCore(lastRead.context.primaryGoal,
                                    lastRead.result.output).confidence, 1000)

----------------------------------------------------------------------------
(* The resilient-coordination tool: one request makes a Decision, executes  *)
(* it task by task on the agents of the factory and reads the statistics.   *)

\* the agent type whose name an agent id includes
TypeInId ==
  (Orchestrator :> "orchestrator") @@ (Analysis :> "analysis")
  @@ (Creative :> "creative") @@ (Discovery :> "discovery") @@ (Custom :> "custom")

\* the agent executeCoordinationDecision finds for an id of the Decision, or NoAgent
AgentForId(agentId) ==
  CASE TypeInId[agentId] = "orchestrator" -> Orchestrator
    [] TypeInId[agentId] = "analysis" -> Analysis
    [] TypeInId[agentId] = "creative" -> Creative
    [] TypeInId[agentId] = "discovery" -> Discovery
    [] OTHER -> NoAgent

\* what the two loops of executeCoordinationDecision go through, in order
ExecutionQueue(assignments) ==
  Flatten([e \in DOMAIN assignments |->
             IF AgentForId(assignments[e].key) = NoAgent
             THEN << [agentId |-> assignments[e].key, agent |-> NoAgent, task |-> NoTask,
                      tasks |-> [t \in DOMAIN assignments[e].value |->
                                   assignments[e].value[t].id]] >>
             ELSE [t \in DOMAIN assignments[e].value |->
                     [agentId |-> assignments[e].key,
                      agent |-> AgentForId(assignments[e].key),
                      task |-> assignments[e].value[t], tasks |-> <<>>]]])

\* the entry pushed for an agent that was not found
AgentNotFound(item) ==
  [agentId |-> item.agentId, success |-> FALSE,
   output |-> <<"Agent ", item.agentId, " not found or not available">>,
   tasks |-> item.tasks]

\* the entry pushed for a Result executeTask returned
TaskExecuted(agentId, task, result) ==
  [agentId |-> agentId, taskId |-> task.id, success |-> result.success,
   output |-> result.output, confidence |-> result.confidence,
   resourcesUsed |-> result.resourcesUsed]

\* the loops from the head of the queue up to the next await of executeTask, or to
\* their end; S holds the executeTask calls, the agents and the execution
RECURSIVE RunQueue(_)
RunQueue(S) ==
  IF S.execution.queue = <<>>
  THEN [S EXCEPT !.execution.pc = "done", !.execution.call = 0]
  ELSE LET item == Head(S.execution.queue)
       IN IF item.agent = NoAgent
          THEN RunQueue([S EXCEPT !.execution.queue = Tail(@),
                                  !.execution.results = Append(@, AgentNotFound(item))])
          ELSE LET started == StartOne([calls |-> S.calls, agents |-> S.agents],
                                       item.agent, item.task, "coordination")
               IN [calls |-> started.calls, agents |-> started.agents,
                   execution |-> [S.execution EXCEPT !.pc = "running",
                                                     !.call = Len(started.calls)]]

\* the state after the loops have run as far as they can; when they ended the
\* tool reads the statistics (history is the coordinationHistory by then)
Proceed(S, history) ==
  /\ calls' = S.calls
  /\ agentState' = S.agents
  /\ execution' = S.execution
  /\ lastRead' = IF S.execution.pc = "done"
                 THEN [op |-> "getCoordinationStats",
                       returned |-> getCoordinationStats(history, outcomeHistory)]
                 ELSE lastRead

----------------------------------------------------------------------------
(* Specification SpecCoordinate: requests to the resilient-coordination     *)
(* tool, one after the other.  The requests are those whose Decision gives  *)
(* its tasks to worker agents; a task given to the orchestrator starts the  *)
(* orchestration run that SpecOrch specifies.                               *)

\* the tool's arguments: goal, complexity, riskTolerance (in tenths)
CoordinateArgs ==
  { <<goal, signals[1], signals[2]>> :
      goal \in { <<"create", "plan">>, <<"ship", "it">> },
      signals \in { <<2, 1>>, <<5, 5>>, <<9, 9>> } }

InitCoordinate ==
  /\ InitIdle
  /\ config = DefaultConfig
  /\ orch = NoOrch
  /\ registered = <<>>
  /\ probe = NoProbe

\* execute() up to the first executeTask call: initializeAgentLattice, the
\* CoordinationContext, makeCoordinationDecision, the head of
\* executeCoordinationDecision
CoordinateRequest ==
  /\ execution.pc \in {"idle", "done"}
  /\ Len(coordinationHistory) < MaxDecisions
  /\ \E args \in CoordinateArgs :
       LET context == CoordinationContext(args[1],
                                          <<Orchestrator, Analysis, Creative, Discovery>>,
                                          args[2], NoTime, args[3], FALSE)
           decision == makeCoordinationDecision(agentState, context, now)
       IN /\ coordinationHistory' = Append(coordinationHistory, decision)
          /\ decisionCtx' = Append(decisionCtx, context)
          /\ Proceed(RunQueue([calls |-> calls, agents |-> agentState,
                               execution |->
                                 [pc |-> "running",
                                  decision |-> Len(coordinationHistory) + 1,
                                  queue |-> ExecutionQueue(decision.agentAssignments),
                                  call |-> 0, results |-> <<>>]]),
                     Append(coordinationHistory, decision))
  /\ registered' = <<Analysis, Creative, Discovery>>
  /\ UNCHANGED <<config, auditLog, now, nextAuditSeq, orch, outcomeHistory, probe>>

\* the awaited executeTask call returned: push its entry and go on
ExecutionAdvance ==
  /\ execution.pc = "running"
  /\ calls[execution.call].pc = "done"
  /\ Proceed(RunQueue([calls |-> calls, agents |-> agentState,
                       execution |->
                         [execution EXCEPT
                            !.queue = Tail(@),
                            !.results = Append(@, TaskExecuted(Head(execution.queue).agentId,
                                                               Head(execution.queue).task,
                                                               calls[execution.call].result))]]),
             coordinationHistory)
  /\ UNCHANGED <<config, auditLog, now, nextAuditSeq, coordinationHistory, decisionCtx,
                 outcomeHistory, probe>>
  /\ UnchangedOrch

NextCoordinate ==
  \/ CoordinateRequest
  \/ ExecutionAdvance
  \/ \E c \in DOMAIN calls : Dispatch(c)
  \/ \E c \in DOMAIN calls : ExecutorReturns(c)
  \/ \E c \in DOMAIN calls : ExecutorThrows(c)
  \/ \E c \in DOMAIN calls : Finish(c)

SpecCoordinate == InitCoordinate /\ [][NextCoordinate]_vars

\* the entries of the results array for tasks that completed
CompletedTasks == SelectSeq(execution.results, LAMBDA r : r.success)

\* C18: after a Decision has been executed, every task of it that completed has
\* an OutcomeEvaluation stored under its task id, and the averageOutcomeValue of
\* getCoordinationStats is the mean over those stored evaluations.
ExecutedTasksAreScored ==
  execution.pc = "done" /\ CompletedTasks # <<>>
    => /\ \A r \in DOMAIN CompletedTasks : MapHas(outcomeHistory, CompletedTasks[r].taskId)
       /\ lastRead.returned.averageOutcomeValue
            = FracMean([r \in DOMAIN CompletedTasks |->
                          MapGet(outcomeHistory, CompletedTasks[r].taskId).overallValue])

----------------------------------------------------------------------------
(* The Orchestrator (OrchestratorAgent.ts): decomposition                   *)

\* { ...context, key: value }
Spread(context, key, value) == {p \in context : p[1] # key} \cup {<<key, value>>}

\* a fragment standing for more than 200 characters without a separator
LongFiller == "lorem ipsum (201 characters)"

IsLong(description) == Includes(description, LongFiller)

createFileAnalysisSubtasks(task) ==
  << Task(task.id \o <<"_file_extraction">>,
          <<"Extract and prepare file contents for analysis">>, task.priority,
          <<"file_analysis">>, Spread(task.context, "phase", "extraction"), task.id),
     Task(task.id \o <<"_content_analysis">>,
          <<"Perform deep analysis of file contents">>, task.priority,
          <<"gemini_analysis">>, Spread(task.context, "phase", "analysis"), task.id) >>

createCreativeProcessSubtasks(task) ==
  << Task(task.id \o <<"_vision_clarification">>,
          <<"Clarify creative vision and desired outcome">>, task.priority,
          <<"creative_process">>, Spread(task.context, "phase", "germination"), task.id),
     Task(task.id \o <<"_resource_analysis">>,
          <<"Analyze available resources and current reality">>, task.priority,
          <<"analysis">>, Spread(task.context, "phase", "assessment"), task.id) >>

\* the fragments /\s+and\s+|,\s+/ matches
Separators == {" and ", ", "}

\* String.prototype.split on the separators
RECURSIVE SplitParts(_, _)
SplitParts(tokens, current) ==
  IF tokens = <<>> THEN <<current>>
  ELSE IF Head(tokens) \in Separators
       THEN <<current>> \o SplitParts(Tail(tokens), <<>>)
       ELSE SplitParts(Tail(tokens), Append(current, Head(tokens)))

createComplexQuerySubtasks(task) ==
  LET parts == SplitParts(task.description, <<>>)
  IN IF Len(parts) < 2 THEN <<>>
     ELSE [index \in DOMAIN parts |->
             Task(task.id \o <<"_part_", ToString(index)>>, parts[index], task.priority,
                  <<"analysis">>, Spread(task.context, "partIndex", index - 1), task.id)]

\* the decomposition strategies, in the order initializeDecompositionStrategies lists them
StrategyNames ==
  << "file_analysis_decomposition", "creative_process_decomposition",
     "complex_query_decomposition" >>

\* strategy.apply(task), when it does not throw
ApplyStrategy(name, task) ==
  LET description == task.description
  IN CASE name = "file_analysis_decomposition" ->
            IF Includes(description, "analyze") /\ Includes(description, "@")
            THEN createFileAnalysisSubtasks(task) ELSE <<>>
       [] name = "creative_process_decomposition" ->
            IF Includes(description, "create") \/ Includes(description, "design")
               \/ Includes(description, "develop")
            THEN createCreativeProcessSubtasks(task) ELSE <<>>
       [] name = "complex_query_decomposition" ->
            IF Includes(description, " and ") \/ Includes(description, ", ")
               \/ IsLong(description)
            THEN createComplexQuerySubtasks(task) ELSE <<>>

\* a decomposition in which the first throw ends the search with no subtasks
RECURSIVE TryUntilThrow(_, _, _)
TryUntilThrow(names, task, throwers) ==
  IF names = <<>> THEN [subtasks |-> <<>>, strategy |-> "none", failed |-> <<>>]
  ELSE IF Head(names) \in throwers
       THEN [subtasks |-> <<>>, strategy |-> "none", failed |-> <<Head(names)>>]
       ELSE LET subtasks == ApplyStrategy(Head(names), task)
            IN IF Len(subtasks) > 0
               THEN [subtasks |-> subtasks, strategy |-> Head(names), failed |-> <<>>]
               ELSE TryUntilThrow(Tail(names), task, throwers)

decomposeTaskStopOnThrow(task, throwers) == TryUntilThrow(StrategyNames, task, throwers)

\* the loop of decomposeTask: a strategy that throws is logged and the next one is tried
RECURSIVE TryStrategies(_, _, _, _)
TryStrategies(names, task, throwers, failed) ==
  IF names = <<>> THEN [subtasks |-> <<>>, strategy |-> "none", failed |-> failed]
  ELSE IF Head(names) \in throwers
       THEN TryStrategies(Tail(names), task, throwers, Append(failed, Head(names)))
       ELSE LET subtasks == ApplyStrategy(Head(names), task)
            IN IF Len(subtasks) > 0
               THEN [subtasks |-> subtasks, strategy |-> Head(names), failed |-> failed]
               ELSE TryStrategies(Tail(names), task, throwers, failed)

\* decomposeTask; throwers are the strategies whose apply throws on this task (a
\* getter of the task or of its context throws).  The result names the subtasks,
\* the strategy that made them and the strategies whose error was caught.
decomposeTask(task, throwers) == TryStrategies(StrategyNames, task, throwers, <<>>)

\* a direct execution that reports the orchestrator's id as the task's id
executeSimpleTaskOwnId(task) ==
  Result(<<Orchestrator>>, Orchestrator, TRUE,
         <<"Task \"">> \o task.description
           \o <<"\" completed directly by orchestrator without decomposition.">>,
         Frac(8, 10), <<"orchestrator_direct_execution">>)

\* executeSimpleTask: the Result of a task that needs no decomposition

executeSimpleTask(task) ==
  Result(task.id, Orchestrator, TRUE,
         <<"Task \"">> \o task.description
           \o <<"\" completed directly by orchestrator without decomposition.">>,
         Frac(8, 10), <<"orchestrator_direct_execution">>)

----------------------------------------------------------------------------
(* The Orchestrator: assignment                                             *)

\* the registered agents that can handle the task, in registration order
findSuitableAgents(states, agents, task) ==
  SelectSeq(agents, LAMBDA a : canHandle(states[a], task))

\* -Infinity
NegInfinity == [num |-> -1, den |-> 0]

RECURSIVE SelectBest(_, _, _, _, _)
SelectBest(states, agents, task, bestAgent, bestScore) ==
  IF agents = <<>> THEN bestAgent
  ELSE LET score == Score(estimateTask(states[Head(agents)], task))
       IN IF FracGT(score, bestScore)
          THEN SelectBest(states, Tail(agents), task, Head(agents), score)
          ELSE SelectBest(states, Tail(agents), task, bestAgent, bestScore)

\* selectBestAgent over a non-empty list of suitable agents
selectBestAgent(states, suitableAgents, task) ==
  SelectBest(states, suitableAgents, task, Head(suitableAgents), NegInfinity)

AgentAssignment(agentId, taskId, estimate) ==
  [agentId |-> agentId, taskId |-> taskId,
   estimatedCost |-> [infinite |-> estimate.infinite, value |-> estimate.cost],
   estimatedReliability |-> estimate.reliability]

\* the loop of assignTasks: a subtask without a suitable agent is skipped
RECURSIVE AssignEach(_, _, _, _)
AssignEach(states, agents, subtasks, assignments) ==
  IF subtasks = <<>> THEN assignments
  ELSE LET subtask == Head(subtasks)
           suitableAgents == findSuitableAgents(states, agents, subtask)
           bestAgent == selectBestAgent(states, suitableAgents, subtask)
           assignment == AgentAssignment(bestAgent, subtask.id,
                                         estimateTask(states[bestAgent], subtask))
       IN IF Len(suitableAgents) = 0
          THEN AssignEach(states, agents, Tail(subtasks), assignments)
          ELSE AssignEach(states, agents, Tail(subtasks),
                          MapSet(assignments, bestAgent,
                                 IF MapHas(assignments, bestAgent)
                                 THEN Append(MapGet(assignments, bestAgent), assignment)
                                 ELSE <<assignment>>))

\* assignTasks: a Map from agent id to that agent's assignments
assignTasks(states, agents, subtasks) == AssignEach(states, agents, subtasks, <<>>)

\* the Task executeAgentTasks builds from an assignment and hands to the agent
TaskFromAssignment(assignment) ==
  Task(assignment.taskId, <<"Subtask for ">> \o assignment.taskId, 5, <<>>, {}, NoParent)

----------------------------------------------------------------------------
(* The Orchestrator: synthesis                                              *)

\* (confidence * 100).toFixed(1)
PercentText(confidence) ==
  LET permille == (confidence.num * 1000) \div confidence.den
  IN <<ToString(permille \div 10), ".", ToString(permille % 10)>>

generateSynthesisConclusion(results) ==
  LET highConfidenceResults ==
        SelectSeq(results, LAMBDA r : FracGT(r.confidence, Frac(7, 10)))
  IN (IF Len(highConfidenceResults) > 0
      THEN <<"Based on ", ToString(Len(highConfidenceResults)),
             " high-confidence analysis(es), ">>
      ELSE <<>>)
     \o (IF Len(results) > 1 THEN <<ConvergenceText>> ELSE <<>>)
     \o <<PerspectivesText>>

\* a sum that starts at the second Result
RECURSIVE SumConfidenceFromSecond(_)
SumConfidenceFromSecond(results) ==
  IF Len(results) <= 1 THEN Frac(0, 1)
  ELSE FracAdd(results[2].confidence, SumConfidenceFromSecond(Tail(results)))

\* the sum of the confidences of a sequence of Results
RECURSIVE SumConfidence(_)
SumConfidence(results) ==
  IF results = <<>> THEN Frac(0, 1)
  ELSE LET head == Head(results).confidence
           rest == SumConfidence(Tail(results))
       IN Frac(head.num * rest.den + rest.num * head.den, head.den * rest.den)

\* a note that names the failed subtasks instead of counting them
FailedNoteListingIds(failedResults) ==
  <<NotePrefix>> \o Flatten([i \in DOMAIN failedResults |-> failedResults[i].taskId])
  \o <<FailedNoteTail>>

\* the note synthesizeResults appends when some subtasks failed
FailedNote(failedResults) ==
  <<NotePrefix, ToString(Len(failedResults)), FailedNoteTail>>

\* one section per successful Result, then the orchestrator's conclusion
SectionedOutputs(successfulResults) ==
  <<MultipleAgentsHeader>>
  \o Flatten([i \in DOMAIN successfulResults |->
                <<"### Agent Analysis ", ToString(i), " (Confidence: ">>
                \o PercentText(successfulResults[i].confidence)
                \o <<"%)\n">> \o successfulResults[i].output \o <<Para>>])
  \o <<SynthesisHeader>> \o generateSynthesisConclusion(successfulResults)

\* a combination that puts a single successful output into a section as well
CombineOutputsAlwaysSectioned(successfulResults) == SectionedOutputs(successfulResults)

\* what synthesizeResults puts after the heading
CombineOutputs(successfulResults) ==
  IF Len(successfulResults) = 1 THEN successfulResults[1].output
  ELSE SectionedOutputs(successfulResults)

synthesizeResults(originalTask, results) ==
  LET successfulResults == SelectSeq(results, LAMBDA r : r.success)
      failedResults == SelectSeq(results, LAMBDA r : ~r.success)
      heading == <<OrchestratedHeader>> \o originalTask.description \o <<Para>>
      combined == CombineOutputs(successfulResults)
      note == IF Len(failedResults) > 0 THEN FailedNote(failedResults) ELSE <<>>
      total == SumConfidence(successfulResults)
      avgConfidence == Frac(total.num, total.den * Len(successfulResults))
  IN IF Len(successfulResults) = 0
     THEN Result(originalTask.id, Orchestrator, FALSE, <<AllFailedText>>, Frac(0, 1), <<>>)
     ELSE Result(originalTask.id, Orchestrator, TRUE, heading \o combined \o note,
                 avgConfidence,
                 Flatten([i \in DOMAIN results |-> results[i].resourcesUsed]))

----------------------------------------------------------------------------
(* The Orchestrator: an orchestration run (doExecuteTask, executeSubtasks,  *)
(* executeAgentTasks).  orch.pc is                                          *)
(*   started   - executeTask was called on the orchestrator                 *)
(*   executing - the chains are running, doExecuteTask awaits them all      *)
(*   returned  - doExecuteTask has returned its Result                      *)

\* one executeAgentTasks call: position is the index of the assignment in
\* flight, current its executeTask call (0 once the chain has returned)
Chain(agentId, assignments, current) ==
  [agentId |-> agentId, assignments |-> assignments, position |-> 1,
   current |-> current, results |-> <<>>]

\* the loop of executeSubtasks: every chain runs up to the first await of its
\* first executeTask call before the next chain is started
RECURSIVE StartChains(_, _)
StartChains(S, assignments) ==
  IF assignments = <<>> THEN S
  ELSE LET entry == Head(assignments)
           started == StartOne([calls |-> S.calls, agents |-> S.agents], entry.key,
                               TaskFromAssignment(entry.value[1]), Orchestrator)
       IN StartChains([calls |-> started.calls, agents |-> started.agents,
                       chains |-> Append(S.chains,
                                         Chain(entry.key, entry.value, Len(started.calls)))],
                      Tail(assignments))

\* a caller invokes executeTask on the orchestrator
OrchStart(task) ==
  /\ orch.pc = "idle"
  /\ LET S == StartOne([calls |-> calls, agents |-> agentState], Orchestrator, task, "env")
     IN /\ calls' = S.calls
        /\ agentState' = S.agents
        /\ orch' = [NoOrch EXCEPT !.pc = "started", !.call = Len(S.calls), !.task = task]
  /\ UNCHANGED <<config, auditLog, now, nextAuditSeq, lastRead, registered, probe>>
  /\ UnchangedPolicy

\* doExecuteTask up to its first real wait: decomposeTask, then either
\* executeSimpleTask (whose Result goes straight to post-validation) or
\* assignTasks and the fan-out of executeSubtasks
OrchDecompose ==
  /\ orch.pc = "started"
  /\ calls[orch.call].pc = "running"
  /\ \E throwers \in SUBSET Range(StrategyNames) :
       LET decomposition == decomposeTask(orch.task, throwers)
           assignments == assignTasks(agentState, registered, decomposition.subtasks)
           S == StartChains([calls |-> calls, agents |-> agentState, chains |-> <<>>],
                            assignments)
           decomposed == [orch EXCEPT !.failed = decomposition.failed,
                                      !.strategy = decomposition.strategy,
                                      !.subtasks = decomposition.subtasks]
       IN IF Len(decomposition.subtasks) = 0
          THEN /\ \E ts \in Ticks :
                    PostValidate(orch.call, executeSimpleTask(orch.task), ts)
               /\ orch' = [decomposed EXCEPT !.pc = "returned"]
               /\ UNCHANGED agentState
          ELSE /\ calls' = S.calls
               /\ agentState' = S.agents
               /\ orch' = [decomposed EXCEPT !.pc = "executing",
                                             !.assignments = assignments,
                                             !.chains = S.chains]
               /\ UNCHANGED <<auditLog, now, nextAuditSeq>>
  /\ UNCHANGED <<config, lastRead, registered, probe>>
  /\ UnchangedPolicy

\* a chain that does not wait for the Result of the call in flight before it
\* starts the next assignment
ChainAdvanceEager(k) ==
  LET chain == orch.chains[k]
      results == Append(chain.results, calls[chain.current].result)
      S == StartOne([calls |-> calls, agents |-> agentState], chain.agentId,
                    TaskFromAssignment(chain.assignments[chain.position + 1]),
                    Orchestrator)
  IN /\ orch.pc = "executing"
     /\ chain.current # 0
     /\ IF chain.position < Len(chain.assignments)
        THEN /\ calls' = S.calls
             /\ agentState' = S.agents
             /\ orch' = [orch EXCEPT !.chains[k] =
                           [chain EXCEPT !.results = results, !.position = @ + 1,
                                         !.current = Len(S.calls)]]
        ELSE /\ calls[chain.current].pc = "done"
             /\ orch' = [orch EXCEPT !.chains[k] =
                           [chain EXCEPT !.results = results, !.position = @ + 1,
                                         !.current = 0]]
             /\ UNCHANGED <<calls, agentState>>
     /\ UNCHANGED <<config, auditLog, now, nextAuditSeq, lastRead, registered, probe>>
     /\ UnchangedPolicy

\* executeAgentTasks resumes after `await agent.executeTask(task)`: it pushes
\* the Result and starts the next assignment, or returns its results
ChainAdvance(k) ==
  LET chain == orch.chains[k]
      results == Append(chain.results, calls[chain.current].result)
      S == StartOne([calls |-> calls, agents |-> agentState], chain.agentId,
                    TaskFromAssignment(chain.assignments[chain.position + 1]),
                    Orchestrator)
  IN /\ orch.pc = "executing"
     /\ chain.current # 0
     /\ calls[chain.current].pc = "done"
     /\ IF chain.position < Len(chain.assignments)
        THEN /\ calls' = S.calls
             /\ agentState' = S.agents
             /\ orch' = [orch EXCEPT !.chains[k] =
                           [chain EXCEPT !.results = results, !.position = @ + 1,
                                         !.current = Len(S.calls)]]
        ELSE /\ orch' = [orch EXCEPT !.chains[k] =
                           [chain EXCEPT !.results = results, !.position = @ + 1,
                                         !.current = 0]]
             /\ UNCHANGED <<calls, agentState>>
     /\ UNCHANGED <<config, auditLog, now, nextAuditSeq, lastRead, registered, probe>>
     /\ UnchangedPolicy

\* a barrier that also waits for a Result of every subtask decomposition produced
EverySubtaskHasResult ==
  /\ \A k \in DOMAIN orch.chains : orch.chains[k].current = 0
  /\ Len(Flatten([k \in DOMAIN orch.chains |-> orch.chains[k].results]))
       = Len(orch.subtasks)

\* a barrier that the first chain to return opens
SomeChainReturned == \E k \in DOMAIN orch.chains : orch.chains[k].current = 0

\* `await Promise.all(executionPromises)`: every executeAgentTasks promise has
\* resolved, that is, every chain has returned its results
AllChainsReturned == \A k \in DOMAIN orch.chains : orch.chains[k].current = 0

\* Promise.all has resolved: the results are flattened in chain order and
\* synthesized, and the synthesized Result goes to post-validation
OrchSynthesize ==
  /\ orch.pc = "executing"
  /\ AllChainsReturned
  /\ LET results == Flatten([k \in DOMAIN orch.chains |-> orch.chains[k].results])
     IN /\ \E ts \in Ticks :
             PostValidate(orch.call, synthesizeResults(orch.task, results), ts)
        /\ orch' = [orch EXCEPT !.pc = "returned", !.results = results]
  /\ UNCHANGED <<agentState, config, lastRead, registered, probe>>
  /\ UnchangedPolicy

----------------------------------------------------------------------------
(* Specification SpecOrch: one task is run through the orchestrator, with   *)
(* the lattice AgentFactory registers or with a further executor of the     *)
(* caller's registered as well.                                             *)

OrchDescriptions ==
  { <<"hello">>,
    <<"analyze", "@", "src">>,
    <<"create", "report">>,
    <<"compare", " and ", "rank">> }

OrchTasks ==
  { Task(<<"m1">>, description, 7, <<"task_decomposition">>, {<<"user", "u1">>}, NoParent) :
      description \in OrchDescriptions }

Lattices ==
  { <<Analysis, Creative, Discovery>>, <<Analysis, Creative, Discovery, Custom>> }

InitOrch ==
  /\ InitIdle
  /\ config = DefaultConfig
  /\ orch = NoOrch
  /\ registered \in Lattices
  /\ probe = NoProbe

NextOrch ==
  \/ \E task \in OrchTasks : OrchStart(task)
  \/ OrchDecompose
  \/ \E k \in DOMAIN orch.chains : ChainAdvance(k)
  \/ OrchSynthesize
  \/ \E c \in DOMAIN calls : Dispatch(c)
  \/ \E c \in DOMAIN calls : ExecutorReturns(c)
  \/ \E c \in DOMAIN calls : ExecutorThrows(c)
  \/ \E c \in DOMAIN calls : Finish(c)

SpecOrch == InitOrch /\ [][NextOrch]_vars

\* the continuation of doExecuteTask after decomposeTask is ready to run
DecomposeReady == orch.pc = "started" /\ calls[orch.call].pc = "running"

\* the continuation of some executeAgentTasks after its `await agent.executeTask`
\* is ready to run
ChainReady ==
  /\ orch.pc = "executing"
  /\ \E k \in DOMAIN orch.chains :
       orch.chains[k].current # 0 /\ calls[orch.chains[k].current].pc = "done"

\* the continuation of executeSubtasks after Promise.all is ready to run
SynthesizeReady == orch.pc = "executing" /\ AllChainsReturned

\* the executor's operation of some call is dispatched and has not settled
OperationPending ==
  \E c \in DOMAIN calls : calls[c].pc = "running" /\ calls[c].agent \in Workers

\* SpecOrchFair: the run under the scheduling of the event loop.  A continuation
\* whose awaited promise has settled is run: WF on the steps of executeTask, of
\* executeAgentTasks and of doExecuteTask.  Every dispatched executor operation
\* eventually returns or throws.  Nothing obliges a caller to start a run.
\* For the steps that validate or start calls, WF_vars(A) is written out as
\* []<>~ENABLED <<A>>_vars, with the guard of A for ENABLED <<A>>_vars: a step of
\* A ends its guard, so the disjunct []<><<A>>_vars adds nothing.
SpecOrchFair ==
  /\ SpecOrch
  /\ WF_vars(\E c \in DOMAIN calls : Dispatch(c))
  /\ WF_vars(\E c \in DOMAIN calls : Finish(c))
  /\ []<>~DecomposeReady
  /\ []<>~ChainReady
  /\ []<>~SynthesizeReady
  /\ []<>~OperationPending
----------------------------------------------------------------------------
(* Claims about an orchestration run                                        *)

SuccessfulResults(results) == SelectSeq(results, LAMBDA r : r.success)

FailedResults(results) == SelectSeq(results, LAMBDA r : ~r.success)

EndsWith(text, suffix) ==
  /\ Len(text) >= Len(suffix)
  /\ SubSeq(text, Len(text) - Len(suffix) + 1, Len(text)) = suffix

\* id occurs in text at position j
OccursAt(text, id, j) ==
  /\ j + Len(id) - 1 <= Len(text)
  /\ SubSeq(text, j, j + Len(id) - 1) = id

\* the executeTask calls executeAgentTasks made
HandedOver == {c \in DOMAIN calls : calls[c].caller = Orchestrator}

\* the ids of the subtasks assignTasks assigned
AssignedIds ==
  UNION { {orch.assignments[e].value[a].taskId : a \in DOMAIN orch.assignments[e].value} :
          e \in DOMAIN orch.assignments }

\* synthesizeResults has run and its Result is the raw Result of the run
Synthesized == orch.pc = "returned" /\ orch.subtasks # <<>>

SynthesizedResult == calls[orch.call].raw

\* C6: every subtask decomposition produced and the orchestrator assigned is
\* handed to its executor exactly once and unchanged: the Task the executor
\* receives equals the subtask in id, description, priority,
\* requiredCapabilities, context and parentTaskId.
SubtasksHandedOverOnceUnchanged ==
  /\ \A c \in HandedOver :
       /\ \E i \in DOMAIN orch.subtasks : calls[c].task = orch.subtasks[i]
       /\ \A d \in HandedOver : calls[d].task.id = calls[c].task.id => d = c
  /\ orch.pc = "returned" =>
       \A id \in AssignedIds : \E c \in HandedOver : calls[c].task.id = id

\* C7 as stated: when exactly one successful subtask Result exists, the
\* synthesized Result's output is equal to that subtask's output.
SingleSuccessOutputPassedThrough ==
  (Synthesized /\ Len(SuccessfulResults(orch.results)) = 1) =>
     SynthesizedResult.output = SuccessfulResults(orch.results)[1].output

\* C7: when exactly one successful subtask Result exists, the synthesized
\* Result's output is the heading "# Orchestrated Result for: <description>",
\* then that subtask's output unchanged, then the failure note if a subtask
\* failed.
SingleSuccessOutputFollowsHeading ==
  (Synthesized /\ Len(SuccessfulResults(orch.results)) = 1) =>
     SynthesizedResult.output =
       <<OrchestratedHeader>> \o orch.task.description \o <<Para>>
       \o SuccessfulResults(orch.results)[1].output
       \o (IF Len(FailedResults(orch.results)) > 0
           THEN <<NotePrefix, ToString(Len(FailedResults(orch.results))), FailedNoteTail>>
           ELSE <<>>)

\* a run whose only executed subtask succeeded has been synthesized
SingleSuccessWitness ==
  /\ Synthesized
  /\ Len(orch.results) = 1
  /\ Len(SuccessfulResults(orch.results)) = 1
  /\ SynthesizedResult.success

\* C8: dropping subtasks no registered executor can handle is never a hard
\* failure of the orchestration: whatever the number of dropped subtasks, a run
\* in which no executed subtask failed does not end in a Result with
\* success = false.
DroppedSubtasksNeverFailTheRun ==
  (/\ Synthesized
   /\ \E i \in DOMAIN orch.subtasks : orch.subtasks[i].id \notin AssignedIds
   /\ FailedResults(orch.results) = <<>>) =>
     SynthesizedResult.success

\* C9 as stated: when at least one subtask succeeds and at least one fails, the
\* synthesized Result has success = true and its output ends with a note that
\* lists the ids of the failed subtasks.
PartialFailureNoteListsFailedIds ==
  (/\ Synthesized
   /\ SuccessfulResults(orch.results) # <<>>
   /\ FailedResults(orch.results) # <<>>) =>
     /\ SynthesizedResult.success
     /\ \E n \in DOMAIN SynthesizedResult.output :
          /\ SynthesizedResult.output[n] = NotePrefix
          /\ \A i \in DOMAIN orch.results :
               ~orch.results[i].success =>
                 \E j \in n + 1 .. Len(SynthesizedResult.output) :
                   OccursAt(SynthesizedResult.output, orch.results[i].taskId, j)

\* C9: when at least one subtask succeeds and at least one fails, the
\* synthesized Result has success = true and its output ends with a note that
\* states the number of failed subtasks.
PartialFailureNoteCountsFailed ==
  (/\ Synthesized
   /\ SuccessfulResults(orch.results) # <<>>
   /\ FailedResults(orch.results) # <<>>) =>
     /\ SynthesizedResult.success
     /\ EndsWith(SynthesizedResult.output,
                 <<NotePrefix, ToString(Len(FailedResults(orch.results))), FailedNoteTail>>)

\* a run with a successful and a failed subtask has been synthesized
PartialFailureWitness ==
  /\ Synthesized
  /\ \E i, j \in DOMAIN orch.results :
       orch.results[i].success /\ ~orch.results[j].success

\* decomposeTask has run and caught the error of at least one strategy
StrategyThrew == orch.pc \in {"executing", "returned"} /\ orch.failed # <<>>

\* the strategies that did not throw and yield subtasks for the task of the run
Producing ==
  {i \in DOMAIN StrategyNames :
     /\ StrategyNames[i] \notin Range(orch.failed)
     /\ ApplyStrategy(StrategyNames[i], orch.task) # <<>>}

\* C10 as stated: if a decomposition strategy throws while inspecting a task, the
\* error is caught and the task is treated as not decomposed: no strategy
\* produces subtasks for it, it is executed directly, and the error does not
\* reach the caller.
StrategyThrowMeansDirectExecution ==
  StrategyThrew =>
    /\ orch.subtasks = <<>>
    /\ orch.pc = "returned"
    /\ SynthesizedResult = executeSimpleTask(orch.task)
    /\ ~calls[orch.call].threw

\* C10: if a decomposition strategy throws while inspecting a task, the error is
\* caught and does not reach the caller, and that strategy produces no subtasks;
\* the remaining strategies are still tried in order: the first of them that
\* yields subtasks decomposes the task, and the task is executed directly only
\* when none does.
StrategyThrowSkipsThatStrategyOnly ==
  StrategyThrew =>
    /\ ~calls[orch.call].threw
    /\ calls[orch.call].pc = "done" => calls[orch.call].outcome = "returned"
    /\ orch.strategy \notin Range(orch.failed)
    /\ IF Producing = {}
       THEN /\ orch.subtasks = <<>>
            /\ orch.pc = "returned"
            /\ SynthesizedResult = executeSimpleTask(orch.task)
       ELSE \E i \in Producing :
              /\ \A j \in Producing : i <= j
              /\ orch.strategy = StrategyNames[i]
              /\ orch.subtasks = ApplyStrategy(StrategyNames[i], orch.task)

\* a strategy threw, a later one decomposed the task, and the run has returned
StrategyThrowWitness ==
  /\ StrategyThrew
  /\ orch.subtasks # <<>>
  /\ orch.pc = "returned"
  /\ calls[orch.call].pc = "done"

\* every subtask decomposition produced has a Result, and every Result is a success
AllSubtasksSucceeded ==
  /\ Synthesized
  /\ Len(orch.results) = Len(orch.subtasks)
  /\ \A i \in DOMAIN orch.results : orch.results[i].success

\* C21: if all N >= 1 subtasks of an orchestration succeed, the confidence of the
\* synthesized Result equals the arithmetic mean of the N subtask confidences.
AllSucceededConfidenceIsMean ==
  AllSubtasksSucceeded =>
    SynthesizedResult.confidence
      = FracMean([i \in DOMAIN orch.results |-> orch.results[i].confidence])

\* a run whose subtasks all succeeded, with different confidences
AllSucceededWitness ==
  /\ AllSubtasksSucceeded
  /\ \E i, j \in DOMAIN orch.results :
       orch.results[i].confidence # orch.results[j].confidence

\* no decomposition strategy matches the task of the run
NoStrategyMatches ==
  \A i \in DOMAIN StrategyNames : ApplyStrategy(StrategyNames[i], orch.task) = <<>>

\* C22: a task that no decomposition strategy matches yields exactly one
\* direct-execution Result whose taskId equals the original task's id, and no
\* subtask is created or dispatched for it.
UnmatchedTaskExecutedDirectly ==
  (orch.pc # "idle" /\ NoStrategyMatches) =>
    /\ HandedOver = {}
    /\ DOMAIN calls = {orch.call}
    /\ orch.pc = "returned" =>
         /\ orch.subtasks = <<>>
         /\ orch.chains = <<>>
         /\ SynthesizedResult.taskId = orch.task.id
         /\ SynthesizedResult.agentId = Orchestrator
         /\ SynthesizedResult.resourcesUsed = <<"orchestrator_direct_execution">>
    /\ calls[orch.call].pc = "done" =>
         /\ calls[orch.call].outcome = "returned"
         /\ calls[orch.call].result.taskId = orch.task.id
         /\ calls[orch.call].result.resourcesUsed = <<"orchestrator_direct_execution">>

\* the run of a task no strategy matches has returned its Result
UnmatchedTaskWitness ==
  /\ orch.pc = "returned"
  /\ NoStrategyMatches
  /\ calls[orch.call].pc = "done"
  /\ calls[orch.call].result.success

\* the executeTask call of the run has returned a Result to its caller
RunReturned ==
  /\ orch.pc = "returned"
  /\ calls[orch.call].pc = "done"
  /\ calls[orch.call].outcome = "returned"
  /\ calls[orch.call].result.taskId = orch.task.id

\* a subtask of the run is in flight
SubtaskInFlight == \E c \in HandedOver : calls[c].pc # "done"

\* C23: if every executor operation dispatched during a run eventually returns or
\* throws, the executeTask call on the orchestrator eventually returns a Result
\* without throwing, for decomposed and non-decomposed tasks alike, and once it
\* has returned no subtask of the call is in flight.
RunTaskCompletes ==
  /\ (orch.pc = "started") ~> RunReturned
  /\ [](RunReturned => ~SubtaskInFlight)

\* a decomposed run has returned although the operation of one of its subtasks threw
RunTaskCompletesWitness ==
  /\ RunReturned
  /\ orch.subtasks # <<>>
  /\ \E c \in HandedOver : calls[c].threw

\* C24: within one executeTask call the executor's operation is dispatched exactly
\* once, after pre-execution validation and before post-execution validation: a
\* non-compliant pre-execution verdict never prevents the dispatch, and a failed
\* dispatch is never retried.
DispatchedExactlyOnce ==
  \A c \in DOMAIN calls :
    /\ calls[c].pc = "pre" => calls[c].dispatches = 0 /\ calls[c].postPasses = 0
    /\ calls[c].pc = "running" => calls[c].dispatches = 1 /\ calls[c].postPasses = 0
    /\ calls[c].pc \in {"post", "done"} => calls[c].dispatches = 1
    /\ calls[c].threw => calls[c].pc = "done" /\ calls[c].postPasses = 0

\* a call whose pre-execution verdict was non-compliant has ended, its operation
\* having thrown, while another such call has passed post-execution validation
DispatchedExactlyOnceWitness ==
  \E c, d \in DOMAIN calls :
    /\ ~calls[c].approved /\ calls[c].pc = "done" /\ calls[c].threw
    /\ ~calls[d].approved /\ calls[d].pc = "done" /\ calls[d].postPasses = 1

\* the executeTask calls the run made on executor a, and the assignments of a
HandedTo(a) == {c \in HandedOver : calls[c].agent = a}

\* the number of calls the run made on the executor of call c up to c
RankInChain(c) == Cardinality({d \in HandedTo(calls[c].agent) : d <= c})

\* C25: within one orchestration, subtasks assigned to the same executor run
\* strictly one after another in assignment order (the next one starts only
\* after the previous one has produced its Result), so an executor never has two
\* of that orchestration's subtasks in flight at once; the chains of different
\* executors are all started before any of them is awaited.
ChainsRunOneAfterAnother ==
  /\ \A e \in DOMAIN orch.assignments :
       LET mine == HandedTo(orch.assignments[e].key)
           list == orch.assignments[e].value
       IN /\ Cardinality({c \in mine : calls[c].pc # "done"}) <= 1
          /\ \A c \in mine :
               /\ RankInChain(c) <= Len(list)
               /\ calls[c].task.id = list[RankInChain(c)].taskId
               /\ \A d \in mine : d < c =>
                    /\ calls[d].pc = "done"
                    /\ calls[d].result.taskId = calls[d].task.id
          /\ orch.pc \in {"executing", "returned"} => mine # {}
  /\ \A c, d \in HandedOver : (RankInChain(c) = 1 /\ RankInChain(d) > 1) => c < d

\* the second subtask of a chain is in flight, started after the first subtask
\* of the chain had produced its Result
ChainsWitness ==
  \E c, d \in HandedOver :
    /\ calls[c].agent = calls[d].agent
    /\ c < d
    /\ calls[c].pc = "done"
    /\ calls[d].pc = "running"

\* C26: synthesis starts only after every executor chain has finished all of its
\* subtasks, and the failure of one subtask neither cancels nor skips any subtask
\* of a sibling chain or any later subtask of its own chain: every assigned
\* subtask contributes exactly one Result to synthesis.
EveryAssignedSubtaskContributesOnce ==
  Synthesized =>
    /\ \A c \in HandedOver : calls[c].pc = "done"
    /\ \A e \in DOMAIN orch.assignments :
         Cardinality(HandedTo(orch.assignments[e].key)) = Len(orch.assignments[e].value)
    /\ \A id \in AssignedIds :
         Cardinality({i \in DOMAIN orch.results : orch.results[i].taskId = id}) = 1
    /\ \A i \in DOMAIN orch.results :
         /\ orch.results[i].taskId \in AssignedIds
         /\ \E c \in HandedOver : calls[c].result = orch.results[i]

\* a run was synthesized in which the first subtask of a chain failed and the
\* next subtask of that chain succeeded
FailureSkipsNothingWitness ==
  /\ Synthesized
  /\ \E i, j \in DOMAIN orch.results :
       /\ i < j
       /\ orch.results[i].agentId = orch.results[j].agentId
       /\ ~orch.results[i].success
       /\ orch.results[j].success

----------------------------------------------------------------------------
(* Specification SpecSelect: best-match selection as a pure function of the *)
(* registered executors, their states and a task, in the Orchestrator       *)
(* (findSuitableAgents, selectBestAgent) and in the Policy Manager          *)
(* (findMostSuitableAgent), for a lattice with an executor of the caller's  *)
(* registered before or after the factory's, loaded or not.                 *)

\* the capabilities the caller's executor is registered with
SelectCapLists ==
  { << Cap("file_analysis", 6, 90) >>,
    << Cap("file_analysis", 6, 0) >>,
    << Cap("file_analysis", 3, 95), Cap("creative_process", 5, 0) >>,
    << Cap("gemini_analysis", 4, 90) >> }

SelectLoads == {0, 4, 10}

SelectOrders ==
  { <<Analysis, Creative, Custom>>, <<Custom, Analysis, Creative>> }

SelectTasks ==
  { Task(<<"s1">>, <<"select">>, 5, required, {}, NoParent) :
      required \in { <<>>, <<"file_analysis">>, <<"creative_process">>,
                     <<"novelty_search">> } }

\* an executor with load / 0.2 tasks in flight
Loaded(st, load) ==
  [st EXCEPT !.currentLoad = load,
             !.activeTasks = [i \in 1 .. load \div LoadStep |-> <<"busy", ToString(i)>>]]

InitSelect ==
  /\ auditLog = <<>>
  /\ now = 0
  /\ nextAuditSeq = 1
  /\ calls = <<>>
  /\ lastRead = NoRead
  /\ coordinationHistory = <<>>
  /\ decisionCtx = <<>>
  /\ outcomeHistory = <<>>
  /\ execution = NoExecution
  /\ config = DefaultConfig
  /\ orch = NoOrch
  /\ probe = NoProbe
  /\ registered \in SelectOrders
  /\ \E caps \in SelectCapLists, own \in SelectLoads, other \in SelectLoads :
       agentState = [FactoryAgents EXCEPT
                       ![Custom] = Loaded(NewAgentState(caps), own),
                       ![Analysis] = Loaded(@, other)]

\* one (sub)task is matched as assignTasks matches it and as the assignment
\* generators of the Policy Manager match it
SelectBestMatch(task) ==
  /\ probe.pc = "idle"
  /\ LET suitableAgents == findSuitableAgents(agentState, registered, task)
     IN probe' = [pc |-> "selected", task |-> task,
                  suitable |-> Len(suitableAgents),
                  orchestrator |-> IF Len(suitableAgents) = 0 THEN NoAgent
                                   ELSE selectBestAgent(agentState, suitableAgents, task),
                  policy |-> findMostSuitableAgent(agentState, registered, task)]
  /\ UNCHANGED <<agentState, config, auditLog, now, nextAuditSeq, calls, lastRead>>
  /\ UnchangedOrch /\ UnchangedPolicy

NextSelect == \E task \in SelectTasks : SelectBestMatch(task)

SpecSelect == InitSelect /\ [][NextSelect]_vars

\* the positions in registration order of the executors whose canHandle is true
Eligible(task) ==
  {i \in DOMAIN registered : canHandle(agentState[registered[i]], task)}

\* reliability / max(cost, 1) of the executor registered at position i
MatchScore(i, task) == Score(estimateTask(agentState[registered[i]], task))

\* C27: for each (sub)task, best-match selection (in the Orchestrator and in the
\* Policy Manager alike) returns, among the executors whose canHandle is true,
\* the one with the maximum reliability / max(cost, 1); on equal scores the
\* executor that comes first in registration order wins; so an executor whose
\* matching capabilities all have reliability 0 is never selected when an
\* eligible alternative with reliability > 0 exists.
BestMatchIsFirstOfMaximumScore ==
  (probe.pc = "selected" /\ Eligible(probe.task) # {}) =>
    \E i \in Eligible(probe.task) :
      /\ probe.orchestrator = registered[i]
      /\ probe.policy = registered[i]
      /\ \A j \in Eligible(probe.task) :
           /\ ~FracGT(MatchScore(j, probe.task), MatchScore(i, probe.task))
           /\ MatchScore(j, probe.task) = MatchScore(i, probe.task) => i <= j
      /\ estimateTask(agentState[registered[i]], probe.task).reliability.num = 0 =>
           \A j \in Eligible(probe.task) :
             estimateTask(agentState[registered[j]], probe.task).reliability.num = 0

\* the caller's executor, registered first, and a factory executor are eligible
\* with the same score above 0, and the caller's executor was selected
BestMatchTieWitness ==
  /\ probe.pc = "selected"
  /\ \E i, j \in Eligible(probe.task) :
       /\ i < j
       /\ MatchScore(i, probe.task) = MatchScore(j, probe.task)
       /\ FracGT(MatchScore(i, probe.task), Frac(0, 1))
       /\ probe.policy = registered[i]
       /\ registered[i] = Custom

----------------------------------------------------------------------------
(* Specification SpecCorrect: postExecutionValidation as a pure function of *)
(* the configuration and an exchange, for every setting of the two          *)
(* correction switches and every set of evaluation criteria.                *)

CorrectionConfigs ==
  { [DefaultConfig EXCEPT !.enableActivePause = pause, !.generateAlternatives = generate,
                          !.evaluationCriteria = criteria] :
      pause \in BOOLEAN, generate \in BOOLEAN,
      criteria \in SUBSET DefaultConfig.evaluationCriteria }

InitCorrect ==
  /\ InitIdle
  /\ config \in CorrectionConfigs
  /\ orch = NoOrch
  /\ registered = <<>>
  /\ probe = NoProbe

\* one postExecutionValidation call; probe keeps the output it returned
CorrectExchange ==
  /\ probe.pc = "idle"
  /\ \E input \in AuditInputs, output \in AuditOutputs, ts \in Ticks :
       LET post == postExecutionValidation(config, "tryad-collaboration", input, output,
                                           nextAuditSeq, ts)
       IN /\ auditLog' = Append(auditLog, post.audit)
          /\ nextAuditSeq' = nextAuditSeq + 1
          /\ now' = ts
          /\ probe' = [pc |-> "validated", returned |-> post.finalOutput]
  /\ UNCHANGED <<agentState, config, calls, lastRead>>
  /\ UnchangedOrch /\ UnchangedPolicy

NextCorrect == CorrectExchange

SpecCorrect == InitCorrect /\ [][NextCorrect]_vars

\* the audit record of the call, and the alternatives of its exchange with their scores
CallAudit == auditLog[Len(auditLog)]

ScoredAlternatives ==
  evaluateAlternatives(config,
    generateAlternativeApproaches(config, CallAudit.input, CallAudit.output),
    CallAudit.input)

\* the output returned and recorded is the first of the highest-scoring alternatives
ReturnedFirstOfHighestScore ==
  \E i \in DOMAIN ScoredAlternatives :
    /\ probe.returned = ScoredAlternatives[i].output
    /\ CallAudit.finalOutput = ScoredAlternatives[i].output
    /\ CallAudit.correctionApplied
    /\ \A j \in DOMAIN ScoredAlternatives :
         /\ ScoredAlternatives[j].score <= ScoredAlternatives[i].score
         /\ ScoredAlternatives[j].score = ScoredAlternatives[i].score => i <= j

\* C28 as stated: when post-execution validation is non-compliant and
\* self-correction is enabled, the output returned (and recorded as the audit
\* record's final output with correctionApplied = true) is the alternative with
\* the highest score, and among alternatives with equal highest score the
\* first-generated one.
CorrectionKeepsBestAlternative ==
  (/\ probe.pc = "validated"
   /\ ~CallAudit.validation.overallCompliant
   /\ config.enableActivePause) =>
     ReturnedFirstOfHighestScore

\* C28: when post-execution validation is non-compliant, self-correction is
\* enabled and the generation of alternatives is enabled, the output returned
\* (and recorded as the audit record's final output with correctionApplied =
\* true) is the alternative with the highest score, and among alternatives with
\* equal highest score the first-generated one; with the generation of
\* alternatives disabled it is the principle-guided rewrite, whatever its score.
CorrectionKeepsBestGeneratedAlternative ==
  (/\ probe.pc = "validated"
   /\ ~CallAudit.validation.overallCompliant
   /\ config.enableActivePause) =>
     IF config.generateAlternatives
     THEN ReturnedFirstOfHighestScore
     ELSE /\ probe.returned = ScoredAlternatives[1].output
          /\ CallAudit.finalOutput = ScoredAlternatives[1].output
          /\ CallAudit.correctionApplied

\* two alternatives had the highest score, and the correction returned the one
\* generated first
CorrectionWitness ==
  /\ probe.pc = "validated"
  /\ ~CallAudit.validation.overallCompliant
  /\ config.enableActivePause /\ config.generateAlternatives
  /\ \E i, j \in DOMAIN ScoredAlternatives :
       /\ i < j
       /\ probe.returned = ScoredAlternatives[i].output
       /\ ScoredAlternatives[j].score = ScoredAlternatives[i].score
       /\ \A k \in DOMAIN ScoredAlternatives :
            ScoredAlternatives[k].score <= ScoredAlternatives[i].score

----------------------------------------------------------------------------
(* Specification SpecLoad: the load accounting of executeTask on one        *)
(* executor, for any interleaving of the starts and the exits of up to      *)
(* MaxInFlight overlapping calls.  currentLoad is a JavaScript number, and   *)
(* here it is kept as the IEEE 754 double the additions and subtractions of *)
(* 0.2 produce; the specifications above keep it in tenths, which is what   *)
(* its comparison with 0.9 sees.                                            *)

MaxInFlight == 6      \* the most calls in flight on the executor at once

\* the double  fifths / 5 + err * 2^-56 / 5 : a double within a few units of the
\* last place of a multiple of 0.2
Double(fifths, err) == [fifths |-> fifths, err |-> err]

\* the literals 0, 0.2 and 1.0 as doubles
DoubleZero == Double(0, 0)

DoubleFifth == Double(1, 4)

DoubleOne == Double(5, 0)

DoubleLT(x, y) == x.fifths < y.fifths \/ (x.fifths = y.fifths /\ x.err < y.err)

\* the spacing of the doubles around x, in units of 2^-56 / 5: 2^-55 in
\* [0.125, 0.25), 2^-54 in [0.25, 0.5), 2^-53 in [0.5, 1), 2^-52 in [1, 2)
Ulp(x) ==
  IF x.fifths >= 6 \/ (x.fifths = 5 /\ x.err >= 0) THEN 80
  ELSE IF x.fifths >= 3 THEN 40
  ELSE IF x.fifths = 2 THEN 20
  ELSE 10

\* x in units of 2^-56 / 5, modulo 160: 2^56 is 96 modulo 160
Residue(x) == x.fifths * 96 + x.err

\* the double nearest to the exact value x, ties to the even one.  A value
\* below 0.125 is the difference of two doubles within a factor of two of each
\* other, which is a double.
RoundToDouble(x) ==
  IF x.fifths = 0 THEN x
  ELSE LET remainder == Residue(x) % Ulp(x)
           odd == (Residue(x) - remainder) % (2 * Ulp(x)) # 0
       IN IF remainder = 0 THEN x
          ELSE IF 2 * remainder < Ulp(x) \/ (2 * remainder = Ulp(x) /\ ~odd)
               THEN Double(x.fifths, x.err - remainder)
               ELSE Double(x.fifths, x.err - remainder + Ulp(x))

\* x + y, x - y and n * x in double arithmetic
DoublePlus(x, y) == RoundToDouble(Double(x.fifths + y.fifths, x.err + y.err))

DoubleMinus(x, y) == RoundToDouble(Double(x.fifths - y.fifths, x.err - y.err))

DoubleTimes(n, x) == RoundToDouble(Double(n * x.fifths, n * x.err))

MathMin(x, y) == IF DoubleLT(y, x) THEN y ELSE x

MathMax(x, y) == IF DoubleLT(x, y) THEN y ELSE x

\* the ids of the tasks callers hand to the executor
LoadTaskIds == {<<"t1">>, <<"t2">>}

\* how a call leaves executeTask: by the return of the try block (a Result that
\* succeeded or failed) or by the return of the catch block (the operation threw)
LoadExits == {"returned", "caught"}

\* the executor as constructed; inFlight counts the calls in flight per task id
InitLoad ==
  /\ InitIdle
  /\ config = DefaultConfig
  /\ orch = NoOrch
  /\ registered = <<>>
  /\ probe = [pc |-> "load", currentLoad |-> DoubleZero, activeTasks |-> <<>>,
              inFlight |-> [id \in LoadTaskIds |-> 0], lastExit |-> "none"]

\* the number of calls in flight whose task id is in ids
RECURSIVE CountInFlight(_, _)
CountInFlight(inFlight, ids) ==
  IF ids = {} THEN 0
  ELSE LET id == CHOOSE x \in ids : TRUE
       IN inFlight[id] + CountInFlight(inFlight, ids \ {id})

InFlightCount == CountInFlight(probe.inFlight, LoadTaskIds)

\* the first lines of executeTask: activeTasks.push(task.id) and
\* currentLoad = Math.min(currentLoad + 0.2, 1.0)
StartTask(id) ==
  /\ probe.pc = "load"
  /\ InFlightCount < MaxInFlight
  /\ probe' = [probe EXCEPT
                 !.activeTasks = Append(@, id),
                 !.currentLoad = MathMin(DoublePlus(@, DoubleFifth), DoubleOne),
                 !.inFlight[id] = @ + 1]
  /\ UNCHANGED <<agentState, config, auditLog, now, nextAuditSeq, calls, lastRead>>
  /\ UnchangedOrch /\ UnchangedPolicy

\* the finally block of executeTask, after either return:
\* activeTasks = activeTasks.filter(id => id !== task.id) and
\* currentLoad = Math.max(currentLoad - 0.2, 0)
ExitTask(id, exit) ==
  /\ probe.pc = "load"
  /\ probe.inFlight[id] > 0
  /\ probe' = [probe EXCEPT
                 !.activeTasks = SelectSeq(@, LAMBDA other : other # id),
                 !.currentLoad = MathMax(DoubleMinus(@, DoubleFifth), DoubleZero),
                 !.inFlight[id] = @ - 1,
                 !.lastExit = exit]
  /\ UNCHANGED <<agentState, config, auditLog, now, nextAuditSeq, calls, lastRead>>
  /\ UnchangedOrch /\ UnchangedPolicy

NextLoad ==
  \/ \E id \in LoadTaskIds : StartTask(id)
  \/ \E id \in LoadTaskIds, exit \in LoadExits : ExitTask(id, exit)

SpecLoad == InitLoad /\ [][NextLoad]_vars

\* canHandle's hasCapacity, currentLoad < 0.9: 0.9 lies between the doubles near
\* 0.8 and 1.0
HasCapacity == 2 * probe.currentLoad.fifths < 9

\* C29: for any interleaving of task starts and finishes on one executor, its
\* load stays within [0, 1], and whenever no task is in flight on the executor
\* its load is 0 and its activeTasks list is empty.
LoadZeroWhenIdle ==
  probe.pc = "load" =>
    /\ ~DoubleLT(probe.currentLoad, DoubleZero)
    /\ ~DoubleLT(DoubleOne, probe.currentLoad)
    /\ InFlightCount = 0 =>
         /\ probe.currentLoad = DoubleZero
         /\ probe.activeTasks = <<>>

\* C30: at every moment, for any number of tasks overlapping on one executor, the
\* executor's load equals min(0.2 x number of its in-flight tasks, 1), so
\* canHandle refuses new tasks (load >= 0.9) exactly while five or more tasks
\* are in flight on it.
LoadCountsInFlightTasks ==
  probe.pc = "load" =>
    /\ probe.currentLoad = MathMin(DoubleTimes(InFlightCount, DoubleFifth), DoubleOne)
    /\ ~HasCapacity <=> InFlightCount >= 5
====
